---- MODULE Spec2Model ----
(***************************************************************************)
(* A model of the go-balancer routing engine: the Backend record and its   *)
(* accessors (backend/backend.go), the selection strategies (strategy/),   *)
(* and the LoadBalancer request path with its metrics.                     *)
(*                                                                         *)
(* Backends are numbered 1..NumBackends in registration (list) order.      *)
(* A *backend.Backend result of SelectBackend is a backend number, Nil     *)
(* for the nil pointer, Phantom for a freshly allocated zero-value         *)
(* Backend that is in no list, or Panic when the call does not return.     *)
(***************************************************************************)
EXTENDS Integers, Sequences, FiniteSets, TLC

\* ------------------------------------------------------------------ bounds
NumBackends == 3
MaxConn == 2
MaxWeight == 3
MaxCalls == 10
CursorBits == 6
NumHandlers == 2
NumURLs == 2
MaxRequests == 3
MaxFail == 1
MaxDuration == 1
MaxScenarioRequests == 12
MaxProbes == 2
MaxConfigURLs == 2
MaxFreshCalls == 2

MaxPeerCalls == 4

\* --------------------------------------------------------------- constants
Backends == 1..NumBackends
AllBackends == [i \in 1..NumBackends |-> i]
Nil == 0
Phantom == NumBackends + 1
Panic == NumBackends + 2

RoundRobinStrategy == "RoundRobin"
WeightedRoundRobinStrategy == "WeightedRoundRobin"
LeastConnectionsStrategy == "LeastConnections"
RandomStrategy == "Random"
IPHashStrategy == "IPHash"
Strategies ==
    {RoundRobinStrategy, WeightedRoundRobinStrategy, LeastConnectionsStrategy,
     RandomStrategy, IPHashStrategy}

VARIABLES
    alive,          \* Backend.Alive, per backend
    connections,    \* Backend.Connections (int32), per backend
    strategy,       \* the Strategy instance in use, by Name()
    rrCurrent,      \* RoundRobin.current (uint64)
    wrrCurrent,     \* WeightedRoundRobin.current (uint64)
    weights,        \* WeightedRoundRobin.weights, a map backend -> int
    responseTime,   \* Backend.ResponseTime, per backend
    failCount,      \* Backend.FailCount (int32), per backend
    TotalRequests,  \* Metrics.TotalRequests
    FailedRequests, \* Metrics.FailedRequests
    req,            \* the ServeHTTP calls in progress, per handler goroutine
    selLog,         \* history: results of the calls on the rotating strategy
                    \* since the inputs (list, liveness) last changed
    last,           \* history: the last call made and what it returned
    downed,         \* history: the backends a failover episode marked not-alive
    stats,          \* the map returned by the last GetStats call
    tally,          \* history: how the ServeHTTP calls of a scenario ended
    hcPc,           \* HealthChecker.Start: where the monitor goroutine is
    ctxDone,        \* the monitor's context has been cancelled
    tickPending,    \* a tick waits in the ticker's channel (capacity 1)
    probes,         \* hc.check goroutines in flight, per backend
    env,            \* what a probe of each backend gets right now
    newest,         \* per backend: the probe started last is "pending", or how it ended
    mu,             \* LoadBalancer.mu: the handlers holding RLock, and whether
                    \* SetStrategy holds Lock
    setPc,          \* where the SetStrategy call in progress is
    setArg,         \* the argument of the SetStrategy call in progress
    using,          \* per handler: the strategy value its selection loaded
    got,            \* the name of the strategy the last GetStrategy returned
    config,         \* the Config handed to NewLoadBalancer
    built,          \* what NewLoadBalancer (or each NewBackend) returned
    pool,           \* ServerPool.backends: the URL of each backend, in order
    spCurrent,      \* ServerPool.current (uint64)
    nextIdx,        \* the NextIndex calls in progress, per caller
    observed,       \* history: the cursor values NextIndex calls got
    peer,           \* the GetNextPeer calls in progress, per caller
    rrCall,         \* the RoundRobin.SelectBackend calls in progress, per caller
    cursorLog       \* history: the values atomic.AddUint64(&rr.current, 1) returned

backendVars == <<alive, connections, responseTime, failCount>>
strategyVars == <<strategy, rrCurrent, wrrCurrent, weights>>
routerVars == <<TotalRequests, FailedRequests, req>>
histVars == <<selLog, last, downed>>
monitorVars == <<hcPc, ctxDone, tickPending, probes, env, newest>>
lockVars == <<mu, setPc, setArg, using, got>>
constructVars == <<config, built>>
poolVars == <<pool, spCurrent, nextIdx, observed, peer>>
callerVars == <<rrCall, cursorLog>>
otherVars == <<stats, tally, monitorVars, lockVars, constructVars, poolVars, callerVars>>
vars == <<backendVars, strategyVars, routerVars, histVars, otherVars>>

\* ------------------------------------------------------- integer arithmetic
\* The cursors are unsigned counters of CursorBits bits; int(next) reinterprets
\* the bits as a signed integer of the same width, and signed arithmetic wraps.
CursorMod == 2 ^ CursorBits

AddUint64(c) == (c + 1) % CursorMod

IntOf(u) == IF u < CursorMod \div 2 THEN u ELSE u - CursorMod

WrapInt(x) ==
    IF x < -(CursorMod \div 2) THEN x + CursorMod
    ELSE IF x >= CursorMod \div 2 THEN x - CursorMod
    ELSE x

\* Go's % truncates toward zero: the result has the sign of the dividend.
GoRem(a, n) == IF a >= 0 THEN a % n ELSE -((-a) % n)

\* ------------------------------------------------------------ Backend reads
\* A zero-value Backend has Alive = false and Connections = 0.
IsAlive(b) == IF b \in Backends THEN alive[b] ELSE FALSE

GetConnections(b) == IF b \in Backends THEN connections[b] ELSE 0

\* --------------------------------------------------------------- strategies
\* The "find alive backends" loop shared by the strategies.
AliveBackendsDropLast(bs, al) ==
    SelectSeq(SubSeq(bs, 1, Len(bs) - 1), LAMBDA b : al[b])

AliveBackendsUnfiltered(bs, al) == bs

AliveBackends(bs, al) == SelectSeq(bs, LAMBDA b : al[b])

\* aliveBackends[(int(next)-1) % len(aliveBackends)]; an index outside the
\* slice panics.
IndexRotatingNoOffset(list, next) ==
    LET idx == GoRem(IntOf(next), Len(list))
    IN  IF idx \in 0..(Len(list) - 1) THEN list[idx + 1] ELSE Panic

IndexRotating(list, next) ==
    LET idx == GoRem(WrapInt(IntOf(next) - 1), Len(list))
    IN  IF idx \in 0..(Len(list) - 1) THEN list[idx + 1] ELSE Panic

\* Each SelectBackend returns the backend and the value its cursor is left at.
RoundRobinSelectBackend(bs, al, cur) ==
    IF Len(bs) = 0 THEN [backend |-> Nil, current |-> cur]
    ELSE LET aliveBackends == AliveBackends(bs, al)
         IN  IF Len(aliveBackends) = 0 THEN [backend |-> Nil, current |-> cur]
             ELSE [backend |-> IndexRotating(aliveBackends, AddUint64(cur)),
                   current |-> AddUint64(cur)]

\* A lookup that gives a backend without an entry the weight 0.
WeightOfDefaultZero(w, b) == IF b \in DOMAIN w THEN w[b] ELSE 0

\* weight := 1; if w, ok := wrr.weights[b]; ok { weight = w }
WeightOf(w, b) == IF b \in DOMAIN w THEN w[b] ELSE 1

Repeat(b, n) == [i \in 1..n |-> b]

RECURSIVE WeightedBackendsUnweighted(_, _, _)
WeightedBackendsUnweighted(bs, al, w) ==
    IF bs = <<>> THEN <<>>
    ELSE (IF al[Head(bs)] THEN <<Head(bs)>> ELSE <<>>)
         \o WeightedBackendsUnweighted(Tail(bs), al, w)

RECURSIVE WeightedBackends(_, _, _)
WeightedBackends(bs, al, w) ==
    IF bs = <<>> THEN <<>>
    ELSE (IF al[Head(bs)] THEN Repeat(Head(bs), WeightOf(w, Head(bs))) ELSE <<>>)
         \o WeightedBackends(Tail(bs), al, w)

WeightedRoundRobinSelectBackend(bs, al, w, cur) ==
    IF Len(bs) = 0 THEN [backend |-> Nil, current |-> cur]
    ELSE LET weightedBackends == WeightedBackends(bs, al, w)
         IN  IF Len(weightedBackends) = 0 THEN [backend |-> Nil, current |-> cur]
             ELSE [backend |-> IndexRotating(weightedBackends, AddUint64(cur)),
                   current |-> AddUint64(cur)]

\* The scan of LeastConnections.SelectBackend from position i on, with the
\* loop's two locals.
RECURSIVE LeastConnectionsScanLastTie(_, _, _, _, _, _)
LeastConnectionsScanLastTie(bs, i, selected, minConnections, al, conn) ==
    IF i > Len(bs) THEN selected
    ELSE IF ~al[bs[i]]
         THEN LeastConnectionsScanLastTie(bs, i + 1, selected, minConnections, al, conn)
    ELSE IF minConnections = -1 \/ conn[bs[i]] <= minConnections
         THEN LeastConnectionsScanLastTie(bs, i + 1, bs[i], conn[bs[i]], al, conn)
    ELSE LeastConnectionsScanLastTie(bs, i + 1, selected, minConnections, al, conn)

RECURSIVE LeastConnectionsScan(_, _, _, _, _, _)
LeastConnectionsScan(bs, i, selected, minConnections, al, conn) ==
    IF i > Len(bs) THEN selected
    ELSE IF ~al[bs[i]]
         THEN LeastConnectionsScan(bs, i + 1, selected, minConnections, al, conn)
    ELSE IF minConnections = -1 \/ conn[bs[i]] < minConnections
         THEN LeastConnectionsScan(bs, i + 1, bs[i], conn[bs[i]], al, conn)
    ELSE LeastConnectionsScan(bs, i + 1, selected, minConnections, al, conn)

LeastConnectionsSelectBackend(bs, al, conn) ==
    IF Len(bs) = 0 THEN Nil
    ELSE LeastConnectionsScan(bs, 1, Phantom, -1, al, conn)

\* A generator that always returns index 0.
RandomSelectBackendIndexZero(bs, al) ==
    IF Len(bs) = 0 THEN {Nil}
    ELSE LET aliveBackends == AliveBackends(bs, al)
         IN  IF Len(aliveBackends) = 0 THEN {Nil}
             ELSE {aliveBackends[1]}

\* rng.Intn(len) may return any index of the alive list.
RandomSelectBackend(bs, al) ==
    IF Len(bs) = 0 THEN {Nil}
    ELSE LET aliveBackends == AliveBackends(bs, al)
         IN  IF Len(aliveBackends) = 0 THEN {Nil}
             ELSE {aliveBackends[idx + 1] : idx \in 0..(Len(aliveBackends) - 1)}

\* A selection that takes the last alive backend.
IPHashSelectBackendLastAlive(bs, al) ==
    IF Len(bs) = 0 THEN Nil
    ELSE LET aliveBackends == AliveBackends(bs, al)
         IN  IF Len(aliveBackends) = 0 THEN Nil
             ELSE aliveBackends[Len(aliveBackends)]

IPHashSelectBackend(bs, al) ==
    IF Len(bs) = 0 THEN Nil
    ELSE LET aliveBackends == AliveBackends(bs, al)
         IN  IF Len(aliveBackends) = 0 THEN Nil
             ELSE aliveBackends[1]

\* ------------------------------------------------------------ construction
\* NewBackend: Alive = true, every other field its zero value.
NewBackend ==
    /\ alive = [b \in Backends |-> TRUE]
    /\ connections = [b \in Backends |-> 0]
    /\ responseTime = [b \in Backends |-> 0]
    /\ failCount = [b \in Backends |-> 0]

\* NewRoundRobin / NewWeightedRoundRobin: the cursors start at 0.
NewStrategy(s, w) ==
    /\ strategy = s
    /\ rrCurrent = 0
    /\ wrrCurrent = 0
    /\ weights = w

\* No ServeHTTP call has been made.
Handlers == 1..NumHandlers
IdleReq == [pc |-> "idle", backend |-> Nil, code |-> 0, panic |-> FALSE]
NewMetrics ==
    /\ TotalRequests = 0
    /\ FailedRequests = 0
    /\ req = [h \in Handlers |-> IdleReq]

\* GetStats has not been called; no ServeHTTP call has ended.
NoStats == [strategy |-> "", totalBackends |-> 0, aliveBackends |-> 0,
            totalConnections |-> 0, totalRequests |-> 0, failedRequests |-> 0,
            successRate |-> "", backends |-> <<>>]
NoTally == [forwarded |-> 0, unavailable |-> 0, badGateway |-> 0, panicked |-> 0]
\* Nobody holds lb.mu; no SetStrategy or GetStrategy call has been made.
LockIdle ==
    /\ mu = [readers |-> {}, writer |-> FALSE]
    /\ setPc = "idle"
    /\ setArg = ""
    /\ using = [h \in Handlers |-> ""]
    /\ got = ""

\* No ServerPool is in use.
IdleIdx == [pc |-> "idle", cur |-> 0, result |-> 0]
\* A GetNextPeer caller's locals: l, next, i and the result; adds counts the
\* caller's atomic adds, from is the liveness at the start of the call and
\* stable says that the caller has read no other liveness since.
IdlePeer == [pc |-> "idle", l |-> 0, next |-> 0, i |-> 0, result |-> Nil, adds |-> 0,
             from |-> <<>>, stable |-> TRUE]
NoPool ==
    /\ pool = <<>>
    /\ spCurrent = 0
    /\ nextIdx = [c \in Handlers |-> IdleIdx]
    /\ observed = <<>>
    /\ peer = [c \in Handlers |-> IdlePeer]

\* No caller is inside RoundRobin.SelectBackend.
IdleCall == [pc |-> "idle", aliveBackends |-> <<>>, next |-> 0]
NoCaller ==
    /\ rrCall = [c \in Handlers |-> IdleCall]
    /\ cursorLog = <<>>

\* No load balancer is being built by a caller.
NoConfig ==
    /\ config = [BackendURLs |-> <<>>, Strategy |-> "nil", HealthCheckInterval |-> 0,
                 HealthCheckTimeout |-> 0]
    /\ built = <<>>

\* LoadBalancer.Start has not been called: no monitor goroutine, no probe.
\* Every backend would answer a probe with 200.
MonitorIdle ==
    /\ hcPc = "notstarted"
    /\ ctxDone = FALSE
    /\ tickPending = FALSE
    /\ probes = [b \in Backends |-> 0]
    /\ newest = [b \in Backends |-> "none"]
    /\ env = [b \in Backends |-> 200]

NoCall == [op |-> "none", backend |-> Nil, empty |-> FALSE, before |-> 0, result |-> Nil,
           url |-> ""]
NoHistory ==
    /\ selLog = <<>>
    /\ last = NoCall
    /\ downed = {}
    /\ stats = NoStats
    /\ tally = NoTally

\* ---------------------------------------------------- the connection counter
\* A caller of the Backend API, as in TestBackend_Connections.
IncrementConnections(b) ==
    /\ connections[b] < MaxConn
    /\ connections' = [connections EXCEPT ![b] = @ + 1]
    /\ last' = [NoCall EXCEPT !.op = "increment", !.backend = b, !.before = connections[b]]
    /\ UNCHANGED <<alive, responseTime, failCount, strategyVars, routerVars, selLog, downed, otherVars>>

DecrementConnections(b) ==
    /\ connections[b] > -MaxConn
    /\ connections' = [connections EXCEPT ![b] = @ - 1]
    /\ last' = [NoCall EXCEPT !.op = "decrement", !.backend = b, !.before = connections[b]]
    /\ UNCHANGED <<alive, responseTime, failCount, strategyVars, routerVars, selLog, downed, otherVars>>

InitCounter ==
    /\ NewBackend
    /\ NewStrategy(RoundRobinStrategy, <<>>)
    /\ NewMetrics
    /\ NoHistory
    /\ MonitorIdle
    /\ LockIdle
    /\ NoPool
    /\ NoCaller
    /\ NoConfig

NextCounter ==
    \E b \in Backends : IncrementConnections(b) \/ DecrementConnections(b)

SpecCounter == InitCounter /\ [][NextCounter]_vars

\* C1: the connection count is never observed negative, and a
\* DecrementConnections issued while the count is 0 leaves it at 0.
C1_CountNeverNegative ==
    /\ \A b \in Backends : GetConnections(b) >= 0
    /\ (last.op = "decrement" /\ last.before = 0) => GetConnections(last.backend) = 0

\* ------------------------------------------------- one caller, one strategy
\* A single caller drives one strategy instance, as the strategy tests do:
\* it calls SelectBackend on the empty list or on the registered list, and
\* flips liveness with SetAlive between calls.  Every call runs to completion
\* before the next operation, so liveness and counts are fixed during a call.
Rotating == {RoundRobinStrategy, WeightedRoundRobinStrategy}

BackendLists == {<<>>, AllBackends}

WeightMaps == UNION {[D -> {0, 1, MaxWeight}] : D \in SUBSET Backends}

ConnInputs == [Backends -> 0..MaxConn]

Returned(bs, r) ==
    /\ last' = [NoCall EXCEPT !.op = "select", !.empty = (bs = <<>>), !.result = r]
    /\ selLog' = IF strategy \in Rotating /\ r \in Backends
                  THEN Append(selLog, r) ELSE <<>>
    /\ UNCHANGED downed

CallRoundRobin(bs) ==
    /\ strategy = RoundRobinStrategy
    /\ rrCurrent < MaxCalls
    /\ LET r == RoundRobinSelectBackend(bs, alive, rrCurrent)
       IN  /\ rrCurrent' = r.current
           /\ Returned(bs, r.backend)
    /\ UNCHANGED <<backendVars, strategy, wrrCurrent, weights, routerVars, otherVars>>

CallWeightedRoundRobin(bs) ==
    /\ strategy = WeightedRoundRobinStrategy
    /\ wrrCurrent < MaxCalls
    /\ LET r == WeightedRoundRobinSelectBackend(bs, alive, weights, wrrCurrent)
       IN  /\ wrrCurrent' = r.current
           /\ Returned(bs, r.backend)
    /\ UNCHANGED <<backendVars, strategy, rrCurrent, weights, routerVars, otherVars>>

CallLeastConnections(bs) ==
    /\ strategy = LeastConnectionsStrategy
    /\ Returned(bs, LeastConnectionsSelectBackend(bs, alive, connections))
    /\ UNCHANGED <<backendVars, strategyVars, routerVars, otherVars>>

CallRandom(bs) ==
    /\ strategy = RandomStrategy
    /\ \E r \in RandomSelectBackend(bs, alive) : Returned(bs, r)
    /\ UNCHANGED <<backendVars, strategyVars, routerVars, otherVars>>

CallIPHash(bs) ==
    /\ strategy = IPHashStrategy
    /\ Returned(bs, IPHashSelectBackend(bs, alive))
    /\ UNCHANGED <<backendVars, strategyVars, routerVars, otherVars>>

\* Backend.SetAlive, called between two selections.
SetAlive(b, v) ==
    /\ alive' = [alive EXCEPT ![b] = v]
    /\ last' = [NoCall EXCEPT !.op = "setalive", !.backend = b,
                              !.before = IF alive[b] THEN 1 ELSE 0,
                              !.result = IF v THEN 1 ELSE 0]
    /\ selLog' = <<>>
    /\ UNCHANGED <<connections, responseTime, failCount, strategyVars, routerVars, otherVars>>

CallSetAlive(b, v) == SetAlive(b, v) /\ UNCHANGED downed

InitStrategy ==
    /\ alive = [b \in Backends |-> TRUE]
    /\ responseTime = [b \in Backends |-> 0]
    /\ failCount = [b \in Backends |-> 0]
    /\ \E s \in Strategies :
          /\ \E w \in (IF s = WeightedRoundRobinStrategy THEN WeightMaps ELSE {<<>>}) :
                NewStrategy(s, w)
          /\ connections \in (IF s \in Rotating THEN {[b \in Backends |-> 0]}
                                               ELSE ConnInputs)
    /\ NewMetrics
    /\ NoHistory
    /\ MonitorIdle
    /\ LockIdle
    /\ NoPool
    /\ NoCaller
    /\ NoConfig

NextStrategy ==
    \/ \E bs \in BackendLists :
          \/ CallRoundRobin(bs)
          \/ CallWeightedRoundRobin(bs)
          \/ CallLeastConnections(bs)
          \/ CallRandom(bs)
          \/ CallIPHash(bs)
    \/ \E b \in Backends, v \in BOOLEAN : CallSetAlive(b, v)

SpecStrategy == InitStrategy /\ [][NextStrategy]_vars

\* ------------------------------------------- concurrent round-robin callers
\* Several goroutines call SelectBackend on one RoundRobin instance with the
\* same backend list; liveness is fixed from the start.  A call is three
\* steps: the loop that collects the alive backends, the atomic add, and the
\* indexing of the caller's own list with the value the add returned.
Collecting == {c \in Handlers : rrCall[c].pc = "collected"}

\* A caller that returns the value of a plain read of the cursor.
RoundRobinAddStale(c) ==
    /\ rrCall[c].pc = "collected"
    /\ rrCurrent' = AddUint64(rrCurrent)
    /\ rrCall' = [rrCall EXCEPT ![c].pc = "added",
                                ![c].next = IF Collecting = {c} THEN AddUint64(rrCurrent)
                                            ELSE rrCurrent]
    /\ cursorLog' = Append(cursorLog, rrCall'[c].next)
    /\ UNCHANGED <<backendVars, strategy, wrrCurrent, weights, routerVars, histVars, stats,
                   tally, monitorVars, lockVars, constructVars, poolVars>>

\* SelectBackend up to the test of len(aliveBackends); with no backend alive
\* the call returns nil here.
RoundRobinCollect(c) ==
    /\ rrCall[c].pc = "idle"
    /\ Len(cursorLog) + Cardinality(Collecting) < MaxCalls
    /\ LET aliveBackends == AliveBackends(AllBackends, alive)
       IN  IF Len(aliveBackends) = 0
           THEN /\ last' = [NoCall EXCEPT !.op = "select", !.result = Nil]
                /\ UNCHANGED <<rrCall, selLog>>
           ELSE /\ rrCall' = [rrCall EXCEPT ![c].pc = "collected",
                                            ![c].aliveBackends = aliveBackends]
                /\ UNCHANGED <<last, selLog>>
    /\ UNCHANGED <<backendVars, strategyVars, routerVars, downed, stats, tally, monitorVars,
                   lockVars, constructVars, poolVars, cursorLog>>

\* next := atomic.AddUint64(&rr.current, 1).
RoundRobinAdd(c) ==
    /\ rrCall[c].pc = "collected"
    /\ rrCurrent' = AddUint64(rrCurrent)
    /\ rrCall' = [rrCall EXCEPT ![c].pc = "added", ![c].next = AddUint64(rrCurrent)]
    /\ cursorLog' = Append(cursorLog, AddUint64(rrCurrent))
    /\ UNCHANGED <<backendVars, strategy, wrrCurrent, weights, routerVars, histVars, stats,
                   tally, monitorVars, lockVars, constructVars, poolVars>>

\* return aliveBackends[(int(next)-1)%len(aliveBackends)].
RoundRobinReturn(c) ==
    /\ rrCall[c].pc = "added"
    /\ LET r == IndexRotating(rrCall[c].aliveBackends, rrCall[c].next)
       IN  /\ selLog' = Append(selLog, r)
           /\ last' = [NoCall EXCEPT !.op = "select", !.result = r]
    /\ rrCall' = [rrCall EXCEPT ![c] = IdleCall]
    /\ UNCHANGED <<backendVars, strategyVars, routerVars, downed, stats, tally, monitorVars,
                   lockVars, constructVars, poolVars, cursorLog>>

InitCallers ==
    /\ alive \in [Backends -> BOOLEAN]
    /\ connections = [b \in Backends |-> 0]
    /\ responseTime = [b \in Backends |-> 0]
    /\ failCount = [b \in Backends |-> 0]
    /\ NewStrategy(RoundRobinStrategy, <<>>)
    /\ NewMetrics
    /\ NoHistory
    /\ MonitorIdle
    /\ LockIdle
    /\ NoPool
    /\ NoCaller
    /\ NoConfig

NextCallers ==
    \E c \in Handlers :
        \/ RoundRobinCollect(c)
        \/ RoundRobinAdd(c)
        \/ RoundRobinReturn(c)

SpecCallers == InitCallers /\ [][NextCallers]_vars

\* ------------------------------------------------ the cursor over its range
\* One caller keeps calling SelectBackend on a rotating strategy, the call
\* count unbounded, so that the cursor passes the signed boundary and wraps;
\* liveness changes between calls.  last.before is the value the atomic add
\* returned.
RotateRoundRobin ==
    /\ strategy = RoundRobinStrategy
    /\ LET r == RoundRobinSelectBackend(AllBackends, alive, rrCurrent)
       IN  /\ rrCurrent' = r.current
           /\ last' = [NoCall EXCEPT !.op = "select", !.before = r.current,
                                     !.result = r.backend]
    /\ UNCHANGED <<backendVars, strategy, wrrCurrent, weights, routerVars, selLog, downed,
                   otherVars>>

RotateWeightedRoundRobin ==
    /\ strategy = WeightedRoundRobinStrategy
    /\ LET r == WeightedRoundRobinSelectBackend(AllBackends, alive, weights, wrrCurrent)
       IN  /\ wrrCurrent' = r.current
           /\ last' = [NoCall EXCEPT !.op = "select", !.before = r.current,
                                     !.result = r.backend]
    /\ UNCHANGED <<backendVars, strategy, rrCurrent, weights, routerVars, selLog, downed,
                   otherVars>>

InitCursor ==
    /\ NewBackend
    /\ \E s \in Rotating :
          \E w \in (IF s = WeightedRoundRobinStrategy THEN WeightMaps ELSE {<<>>}) :
             NewStrategy(s, w)
    /\ NewMetrics
    /\ NoHistory
    /\ MonitorIdle
    /\ LockIdle
    /\ NoPool
    /\ NoCaller
    /\ NoConfig

NextCursor ==
    \/ RotateRoundRobin
    \/ RotateWeightedRoundRobin
    \/ \E b \in Backends, v \in BOOLEAN : CallSetAlive(b, v)

SpecCursor == InitCursor /\ [][NextCursor]_vars

\* ------------------------------------------------------------- the router
\* NewLoadBalancer builds one backend per configured URL, in order; the
\* load balancer's list is the first NumURLs registered backends.
LbBackends == SubSeq(AllBackends, 1, NumURLs)

StatusServiceUnavailable == 503
StatusBadGateway == 502
\* Statuses a backend may answer with: success, client error, server error.
BackendStatuses == {200, 404, 500}
Durations == 1..MaxDuration

\* s.SelectBackend(lb.backends) for the strategy value s: the possible
\* results, each with the values the cursors are left at.
SelectBackendWith(s) ==
    CASE s = RoundRobinStrategy ->
           LET r == RoundRobinSelectBackend(LbBackends, alive, rrCurrent)
           IN  {[backend |-> r.backend, rr |-> r.current, wrr |-> wrrCurrent]}
      [] s = WeightedRoundRobinStrategy ->
           LET r == WeightedRoundRobinSelectBackend(LbBackends, alive, weights, wrrCurrent)
           IN  {[backend |-> r.backend, rr |-> rrCurrent, wrr |-> r.current]}
      [] s = LeastConnectionsStrategy ->
           {[backend |-> LeastConnectionsSelectBackend(LbBackends, alive, connections),
             rr |-> rrCurrent, wrr |-> wrrCurrent]}
      [] s = RandomStrategy ->
           {[backend |-> b, rr |-> rrCurrent, wrr |-> wrrCurrent] :
               b \in RandomSelectBackend(LbBackends, alive)}
      [] s = IPHashStrategy ->
           {[backend |-> IPHashSelectBackend(LbBackends, alive),
             rr |-> rrCurrent, wrr |-> wrrCurrent]}

\* lb.strategy.SelectBackend(lb.backends).
SelectBackend == SelectBackendWith(strategy)

\* A ServeHTTP that does not count the request.
ServeHTTPUncounted(h) ==
    /\ req[h].pc \in {"idle", "done", "panicked"}
    /\ req' = [req EXCEPT ![h] = [IdleReq EXCEPT !.pc = "select"]]
    /\ UNCHANGED <<backendVars, strategyVars, TotalRequests, FailedRequests, histVars,
                   otherVars>>

\* ServeHTTP, first statement: atomic.AddInt64(&lb.metrics.TotalRequests, 1).
ServeHTTP(h) ==
    /\ req[h].pc \in {"idle", "done", "panicked"}
    /\ TotalRequests < MaxRequests
    /\ TotalRequests' = TotalRequests + 1
    /\ req' = [req EXCEPT ![h] = [IdleReq EXCEPT !.pc = "select"]]
    /\ UNCHANGED <<backendVars, strategyVars, FailedRequests, histVars, otherVars>>

\* ServeHTTP: the selection, made under lb.mu.RLock.
ServeHTTPSelect(h) ==
    /\ req[h].pc = "select"
    /\ \E r \in SelectBackend :
          /\ rrCurrent' = r.rr
          /\ wrrCurrent' = r.wrr
          /\ req' = [req EXCEPT ![h].backend = r.backend,
                                ![h].pc = IF r.backend = Nil THEN "unavailable"
                                          ELSE "serve"]
    /\ UNCHANGED <<backendVars, strategy, weights, TotalRequests, FailedRequests, histVars, otherVars>>

\* ServeHTTP: no backend selected.
ServeHTTPUnavailable(h) ==
    /\ req[h].pc = "unavailable"
    /\ FailedRequests' = FailedRequests + 1
    /\ req' = [req EXCEPT ![h].code = StatusServiceUnavailable, ![h].pc = "done"]
    /\ UNCHANGED <<backendVars, strategyVars, TotalRequests, histVars, otherVars>>

\* Backend.Serve: atomic.AddInt32(&b.Connections, 1).  A zero-value Backend
\* counts on its own field, which no list shows.
Serve(h) ==
    /\ req[h].pc = "serve"
    /\ connections' = IF req[h].backend \in Backends
                       THEN [connections EXCEPT ![req[h].backend] = @ + 1]
                       ELSE connections
    /\ req' = [req EXCEPT ![h].pc = "proxy"]
    /\ UNCHANGED <<alive, responseTime, failCount, strategyVars, TotalRequests,
                   FailedRequests, histVars, otherVars>>

\* A ModifyResponse that resets FailCount on every response.
ProxyResponseResetAlways(h, status) ==
    /\ req[h].pc = "proxy"
    /\ req[h].backend \in Backends
    /\ failCount' = [failCount EXCEPT ![req[h].backend] = 0]
    /\ req' = [req EXCEPT ![h].code = status, ![h].pc = "release"]
    /\ UNCHANGED <<alive, connections, responseTime, strategyVars, TotalRequests,
                   FailedRequests, histVars, otherVars>>

\* A ModifyResponse that also marks the backend alive below 500.
ProxyResponseRevives(h, status) ==
    /\ req[h].pc = "proxy"
    /\ req[h].backend \in Backends
    /\ failCount' = IF status < 500 THEN [failCount EXCEPT ![req[h].backend] = 0]
                     ELSE failCount
    /\ alive' = IF status < 500 THEN [alive EXCEPT ![req[h].backend] = TRUE] ELSE alive
    /\ req' = [req EXCEPT ![h].code = status, ![h].pc = "release"]
    /\ UNCHANGED <<connections, responseTime, strategyVars, TotalRequests,
                   FailedRequests, histVars, otherVars>>

\* ReverseProxy.ServeHTTP got a response: ModifyResponse resets FailCount
\* below 500, and the response is relayed.
ProxyResponse(h, status) ==
    /\ req[h].pc = "proxy"
    /\ req[h].backend \in Backends
    /\ failCount' = IF status < 500 THEN [failCount EXCEPT ![req[h].backend] = 0]
                     ELSE failCount
    /\ req' = [req EXCEPT ![h].code = status, ![h].pc = "release"]
    /\ UNCHANGED <<alive, connections, responseTime, strategyVars, TotalRequests,
                   FailedRequests, histVars, otherVars>>

\* ReverseProxy.ServeHTTP hit a transport error: ErrorHandler, first
\* statement, atomic.AddInt32(&b.FailCount, 1).
ProxyError(h) ==
    /\ req[h].pc = "proxy"
    /\ req[h].backend \in Backends
    /\ failCount[req[h].backend] < MaxFail
    /\ failCount' = [failCount EXCEPT ![req[h].backend] = @ + 1]
    /\ req' = [req EXCEPT ![h].pc = "errorhandler"]
    /\ UNCHANGED <<alive, connections, responseTime, strategyVars, TotalRequests,
                   FailedRequests, histVars, otherVars>>

\* An error handler that answers 502 and leaves the liveness flag to the
\* next health check.
ErrorHandlerAnswerOnly(h) ==
    /\ req[h].pc = "errorhandler"
    /\ req' = [req EXCEPT ![h].code = StatusBadGateway, ![h].pc = "release"]
    /\ UNCHANGED <<backendVars, strategyVars, TotalRequests, FailedRequests, histVars, otherVars>>

\* ErrorHandler, the rest: b.SetAlive(false) and the 502 answer.
ErrorHandler(h) ==
    /\ req[h].pc = "errorhandler"
    /\ alive' = [alive EXCEPT ![req[h].backend] = FALSE]
    /\ req' = [req EXCEPT ![h].code = StatusBadGateway, ![h].pc = "release"]
    /\ UNCHANGED <<connections, responseTime, failCount, strategyVars, TotalRequests,
                   FailedRequests, histVars, otherVars>>

\* A forward whose decrement is a plain statement after the proxy call rather
\* than a deferred one: a panic unwinds past it.
ProxyPanicNoDefer(h) ==
    /\ req[h].pc = "proxy"
    /\ req' = [req EXCEPT ![h].panic = TRUE, ![h].pc = "panicked"]
    /\ UNCHANGED <<backendVars, strategyVars, TotalRequests, FailedRequests, histVars, otherVars>>

\* ReverseProxy.ServeHTTP panics.  On a zero-value Backend the proxy pointer
\* is nil and nothing has been written.  On a real one the panic is
\* http.ErrAbortHandler, raised when copying the response body fails: by then
\* ModifyResponse has run and the status line has been sent.
ProxyPanic(h) ==
    /\ req[h].pc = "proxy"
    /\ \E status \in (IF req[h].backend \in Backends THEN BackendStatuses ELSE {0}) :
          /\ failCount' = IF req[h].backend \in Backends /\ status < 500
                           THEN [failCount EXCEPT ![req[h].backend] = 0]
                           ELSE failCount
          /\ req' = [req EXCEPT ![h].code = status, ![h].panic = TRUE,
                                ![h].pc = "release"]
    /\ UNCHANGED <<alive, connections, responseTime, strategyVars, TotalRequests,
                   FailedRequests, histVars, otherVars>>

\* Serve's deferred function, first statement: atomic.AddInt32(&b.Connections, -1).
ServeRelease(h) ==
    /\ req[h].pc = "release"
    /\ connections' = IF req[h].backend \in Backends
                       THEN [connections EXCEPT ![req[h].backend] = @ - 1]
                       ELSE connections
    /\ req' = [req EXCEPT ![h].pc = "update"]
    /\ UNCHANGED <<alive, responseTime, failCount, strategyVars, TotalRequests,
                   FailedRequests, histVars, otherVars>>

\* Serve's deferred function, second statement: b.UpdateResponseTime(time.Since(start)).
ServeUpdateResponseTime(h) ==
    /\ req[h].pc = "update"
    /\ \E d \in Durations :
          responseTime' = IF req[h].backend \in Backends
                          THEN [responseTime EXCEPT ![req[h].backend] = d]
                          ELSE responseTime
    /\ req' = [req EXCEPT ![h].pc = IF req[h].panic THEN "panicked" ELSE "done"]
    /\ UNCHANGED <<alive, connections, failCount, strategyVars, TotalRequests,
                   FailedRequests, histVars, otherVars>>

\* What a probe can get: a response status, or ProbeError for a transport
\* error or a timeout (err != nil from NewRequest or client.Do).
ProbeError == 0
ProbeStatuses == {200, 399, 400, 500}
ProbeOutcomes == ProbeStatuses \cup {ProbeError}

\* resp.StatusCode >= 200 && resp.StatusCode < 400, on a probe that got a
\* response.
ProbeHealthyBelow500(outcome) == outcome # ProbeError /\ outcome >= 200 /\ outcome < 500

ProbeHealthy(outcome) == outcome # ProbeError /\ outcome >= 200 /\ outcome < 400

\* HealthChecker.check(b) with the probe's outcome: a healthy one marks the
\* backend alive and records the probe's duration, any other marks it
\* not-alive.
CheckEffect(b, outcome) ==
    /\ alive' = [alive EXCEPT ![b] = ProbeHealthy(outcome)]
    /\ \E d \in Durations :
          responseTime' = IF ProbeHealthy(outcome) THEN [responseTime EXCEPT ![b] = d]
                          ELSE responseTime

\* A health check of b completes, the monitor itself left out.
Check(b, outcome) ==
    /\ CheckEffect(b, outcome)
    /\ UNCHANGED <<connections, failCount, strategyVars, routerVars, histVars, otherVars>>

Init ==
    /\ NewBackend
    /\ \E s \in Strategies : NewStrategy(s, <<>>)
    /\ NewMetrics
    /\ NoHistory
    /\ MonitorIdle
    /\ LockIdle
    /\ NoPool
    /\ NoCaller
    /\ NoConfig

Next ==
    \/ \E h \in Handlers :
          \/ ServeHTTP(h)
          \/ ServeHTTPSelect(h)
          \/ ServeHTTPUnavailable(h)
          \/ Serve(h)
          \/ \E status \in BackendStatuses : ProxyResponse(h, status)
          \/ ProxyError(h)
          \/ ErrorHandler(h)
          \/ ProxyPanic(h)
          \/ ServeRelease(h)
          \/ ServeUpdateResponseTime(h)
    \/ \E b \in 1..NumURLs, outcome \in ProbeOutcomes : Check(b, outcome)

Spec == Init /\ [][Next]_vars

\* ------------------------------------------------------ a failover episode
\* The failover scenario: from all backends alive, one backend is marked
\* not-alive, selections go on, and the backend is later marked alive again.
MarkNotAlive(b) ==
    /\ \A c \in Backends : alive[c]
    /\ downed = {}
    /\ SetAlive(b, FALSE)
    /\ downed' = {b}

MarkAliveAgain(b) ==
    /\ ~alive[b]
    /\ SetAlive(b, TRUE)
    /\ UNCHANGED downed

NextFailover ==
    \/ \E bs \in BackendLists :
          \/ CallRoundRobin(bs)
          \/ CallWeightedRoundRobin(bs)
          \/ CallLeastConnections(bs)
          \/ CallRandom(bs)
          \/ CallIPHash(bs)
    \/ \E b \in Backends : MarkNotAlive(b) \/ MarkAliveAgain(b)

SpecFailover == InitStrategy /\ [][NextFailover]_vars

\* ------------------------------------------------------------ the metrics
\* fmt.Sprintf("%d", n) for n >= 0.
Digit(d) == SubSeq("0123456789", d + 1, d + 1)

RECURSIVE Itoa(_)
Itoa(n) == IF n < 10 THEN Digit(n) ELSE Itoa(n \div 10) \o Digit(n % 10)

\* fmt.Sprintf("%.2f%%", rate) for rate = float64(total-failed) /
\* float64(total) * 100: the rate rounded to the nearest hundredth (no rate is
\* halfway between two hundredths for totals below 32, and the float error is
\* far below a hundredth), with a minus sign when failed exceeds total.
FormatRate(total, failed) ==
    LET magnitude == IF failed > total THEN failed - total ELSE total - failed
        hundredths == (magnitude * 20000 + total) \div (2 * total)
    IN  (IF failed > total THEN "-" ELSE "")
            \o Itoa(hundredths \div 100) \o "." \o Digit((hundredths % 100) \div 10)
            \o Digit(hundredths % 10) \o "%"

calculateSuccessRate(total, failed) ==
    IF total = 0 THEN "N/A" ELSE FormatRate(total, failed)

RECURSIVE SumConnections(_)
SumConnections(bs) ==
    IF bs = <<>> THEN 0 ELSE GetConnections(Head(bs)) + SumConnections(Tail(bs))

\* The map GetStats builds, read from the current state.
StatsMap ==
    [strategy |-> strategy,
     totalBackends |-> Len(LbBackends),
     aliveBackends |-> Len(AliveBackends(LbBackends, alive)),
     totalConnections |-> SumConnections(LbBackends),
     totalRequests |-> TotalRequests,
     failedRequests |-> FailedRequests,
     successRate |-> calculateSuccessRate(TotalRequests, FailedRequests),
     backends |-> [i \in 1..Len(LbBackends) |->
                     [alive |-> IsAlive(LbBackends[i]),
                      connections |-> GetConnections(LbBackends[i]),
                      responseTime |-> responseTime[LbBackends[i]],
                      failCount |-> failCount[LbBackends[i]]]]]

\* A snapshot that also clears the request counters.
GetStatsAndReset ==
    /\ stats' = StatsMap
    /\ TotalRequests' = 0
    /\ FailedRequests' = 0
    /\ UNCHANGED <<backendVars, strategyVars, req, histVars, tally, monitorVars, lockVars, constructVars, poolVars, callerVars>>

\* LoadBalancer.GetStats.
GetStats ==
    /\ stats' = StatsMap
    /\ UNCHANGED <<backendVars, strategyVars, routerVars, histVars, tally, monitorVars, lockVars, constructVars, poolVars, callerVars>>

\* --------------------------------------------------- the metrics scenario
\* One client issues ServeHTTP calls one after the other, each running to
\* completion, while health checks change liveness in between; it then takes
\* a snapshot.  tally records how each call ended.
Ended(kind) == tally' = [tally EXCEPT ![kind] = @ + 1]

\* A whole ServeHTTP call that found no backend.
ServeHTTPCallUnavailable(r) ==
    /\ r.backend = Nil
    /\ FailedRequests' = FailedRequests + 1
    /\ Ended("unavailable")
    /\ UNCHANGED backendVars

\* A whole ServeHTTP call on a zero-value Backend: the nil proxy panics, the
\* deferred function of Serve works on the zero-value Backend's own fields.
ServeHTTPCallPhantom(r) ==
    /\ r.backend = Phantom
    /\ Ended("panicked")
    /\ UNCHANGED <<backendVars, FailedRequests>>

\* A whole ServeHTTP call forwarded to backend r.backend, which answers.
ServeHTTPCallForwarded(r) ==
    /\ r.backend \in Backends
    /\ \E status \in BackendStatuses, d \in Durations :
          /\ failCount' = IF status < 500 THEN [failCount EXCEPT ![r.backend] = 0]
                           ELSE failCount
          /\ responseTime' = [responseTime EXCEPT ![r.backend] = d]
    /\ Ended("forwarded")
    /\ UNCHANGED <<alive, connections, FailedRequests>>

\* A whole ServeHTTP call whose forward fails at transport level.
ServeHTTPCallBadGateway(r) ==
    /\ r.backend \in Backends
    /\ failCount[r.backend] < MaxFail
    /\ failCount' = [failCount EXCEPT ![r.backend] = @ + 1]
    /\ alive' = [alive EXCEPT ![r.backend] = FALSE]
    /\ \E d \in Durations : responseTime' = [responseTime EXCEPT ![r.backend] = d]
    /\ Ended("badGateway")
    /\ UNCHANGED <<connections, FailedRequests>>

\* A whole ServeHTTP call, from the count of the request to its end.
ServeHTTPWhole ==
    /\ TotalRequests < MaxScenarioRequests
    /\ TotalRequests' = TotalRequests + 1
    /\ \E r \in SelectBackend :
          /\ rrCurrent' = r.rr
          /\ wrrCurrent' = r.wrr
          /\ \/ ServeHTTPCallUnavailable(r)
             \/ ServeHTTPCallPhantom(r)
             \/ ServeHTTPCallForwarded(r)
             \/ ServeHTTPCallBadGateway(r)
    /\ UNCHANGED <<strategy, weights, req, histVars, stats, monitorVars, lockVars, constructVars, poolVars, callerVars>>

ServeHTTPCall ==
    /\ stats = NoStats
    /\ ServeHTTPWhole

NextMetrics ==
    \/ ServeHTTPCall
    \/ \E b \in 1..NumURLs, outcome \in ProbeOutcomes : stats = NoStats /\ Check(b, outcome)
    \/ GetStats

SpecMetrics == Init /\ [][NextMetrics]_vars

\* ------------------------------------------- a snapshot of the running router
\* The router handles requests and probes run; at any moment a caller takes
\* one snapshot, which ends the run.
NextStats ==
    \/ stats = NoStats /\ Next
    \/ stats = NoStats /\ GetStats

SpecStats == Init /\ [][NextStats]_vars

\* ------------------------------------------------- a snapshot, load by load
\* GetStats reads the backends and the two request counters one after the
\* other while whole ServeHTTP calls and health checks happen in between.  An unfinished snapshot holds the locals read so
\* far; its strategy entry is still empty.
SnapshotStarted == stats # NoStats

SnapshotDone == stats.strategy # ""

\* GetStats up to totalReqs := atomic.LoadInt64(&lb.metrics.TotalRequests).
GetStatsLoadTotalRequests ==
    /\ ~SnapshotStarted
    /\ stats' = [NoStats EXCEPT !.aliveBackends = StatsMap.aliveBackends,
                                !.totalConnections = StatsMap.totalConnections,
                                !.backends = StatsMap.backends,
                                !.totalRequests = TotalRequests]
    /\ UNCHANGED <<backendVars, strategyVars, routerVars, histVars, tally, monitorVars,
                   lockVars, constructVars, poolVars, callerVars>>

\* GetStats from failedReqs := atomic.LoadInt64(&lb.metrics.FailedRequests)
\* to the return of the map.
GetStatsLoadFailedRequests ==
    /\ SnapshotStarted
    /\ ~SnapshotDone
    /\ stats' = [stats EXCEPT
                    !.failedRequests = FailedRequests,
                    !.strategy = strategy,
                    !.totalBackends = Len(LbBackends),
                    !.successRate = calculateSuccessRate(stats.totalRequests,
                                                         FailedRequests)]
    /\ UNCHANGED <<backendVars, strategyVars, routerVars, histVars, tally, monitorVars,
                   lockVars, constructVars, poolVars, callerVars>>

NextSnapshot ==
    \/ ~SnapshotDone /\ TotalRequests < MaxRequests /\ ServeHTTPWhole
    \/ \E b \in 1..NumURLs, outcome \in ProbeOutcomes : ~SnapshotDone /\ Check(b, outcome)
    \/ GetStatsLoadTotalRequests
    \/ GetStatsLoadFailedRequests

SpecSnapshot == Init /\ [][NextSnapshot]_vars

\* ------------------------------------------------------ the health monitor
\* hc.backends is the router's list.
HcBackends == {LbBackends[i] : i \in 1..Len(LbBackends)}

\* checkAll without a probe, for comparison.
CheckAllSkip ==
    UNCHANGED <<probes, newest>>

\* A checkAll that first waits for the probes of the previous round.
CheckAllAfterPrevious ==
    /\ \A b \in HcBackends : probes[b] = 0
    /\ probes' = [b \in Backends |-> IF b \in HcBackends THEN probes[b] + 1 ELSE probes[b]]
    /\ newest' = [b \in Backends |-> IF b \in HcBackends THEN "pending" ELSE newest[b]]

\* HealthChecker.checkAll: go hc.check(b) for every backend.  The probe
\* started last for a backend is now this one, and it is in flight.
CheckAll ==
    /\ \A b \in HcBackends : probes[b] < MaxProbes
    /\ probes' = [b \in Backends |-> IF b \in HcBackends THEN probes[b] + 1 ELSE probes[b]]
    /\ newest' = [b \in Backends |-> IF b \in HcBackends THEN "pending" ELSE newest[b]]

\* LoadBalancer.Start: go lb.healthChecker.Start(ctx); Start creates its
\* ticker first.
Start ==
    /\ hcPc = "notstarted"
    /\ hcPc' = "initial"
    /\ UNCHANGED <<backendVars, strategyVars, routerVars, histVars, stats, tally, lockVars, constructVars, poolVars, callerVars,
                   ctxDone, tickPending, probes, env, newest>>

\* A start that goes straight to the loop.
StartInitialCheckSkip ==
    /\ hcPc = "initial"
    /\ hcPc' = "loop"
    /\ UNCHANGED <<backendVars, strategyVars, routerVars, histVars, stats, tally, lockVars, constructVars, poolVars, callerVars,
                   ctxDone, tickPending, probes, env, newest>>

\* HealthChecker.Start: the initial hc.checkAll(), before the loop.
StartInitialCheck ==
    /\ hcPc = "initial"
    /\ CheckAll
    /\ hcPc' = "loop"
    /\ UNCHANGED <<backendVars, strategyVars, routerVars, histVars, stats, tally, lockVars, constructVars, poolVars, callerVars,
                   ctxDone, tickPending, env>>

\* The ticker fires: the tick is put in the channel unless one is waiting.
Tick ==
    /\ hcPc \in {"initial", "loop"}
    /\ ~tickPending
    /\ tickPending' = TRUE
    /\ UNCHANGED <<backendVars, strategyVars, routerVars, histVars, stats, tally, lockVars, constructVars, poolVars, callerVars,
                   hcPc, ctxDone, probes, env, newest>>

\* HealthChecker.Start, loop: case <-ticker.C: hc.checkAll().
StartLoopTick ==
    /\ hcPc = "loop"
    /\ tickPending
    /\ tickPending' = FALSE
    /\ CheckAll
    /\ UNCHANGED <<backendVars, strategyVars, routerVars, histVars, stats, tally, lockVars, constructVars, poolVars, callerVars,
                   hcPc, ctxDone, env>>

\* A loop whose ctx.Done case goes round again instead of returning.
StartLoopDoneContinue ==
    /\ hcPc = "loop"
    /\ ctxDone
    /\ hcPc' = "loop"
    /\ UNCHANGED <<backendVars, strategyVars, routerVars, histVars, stats, tally, lockVars, constructVars, poolVars, callerVars,
                   ctxDone, tickPending, probes, env, newest>>

\* HealthChecker.Start, loop: case <-ctx.Done(): return (ticker.Stop deferred).
StartLoopDone ==
    /\ hcPc = "loop"
    /\ ctxDone
    /\ hcPc' = "stopped"
    /\ UNCHANGED <<backendVars, strategyVars, routerVars, histVars, stats, tally, lockVars, constructVars, poolVars, callerVars,
                   ctxDone, tickPending, probes, env, newest>>

\* The owner of the context cancels it.
Cancel ==
    /\ ~ctxDone
    /\ ctxDone' = TRUE
    /\ UNCHANGED <<backendVars, strategyVars, routerVars, histVars, stats, tally, lockVars, constructVars, poolVars, callerVars,
                   hcPc, tickPending, probes, env, newest>>

\* The hc.check(b) goroutine that completes is the one started last for b, or
\* one started before it: the goroutines of a backend run independently and
\* nothing orders their SetAlive calls.
CheckLeaves(b) ==
    \/ /\ newest[b] = "pending"
       /\ newest' = [newest EXCEPT ![b] = IF ProbeHealthy(env[b]) THEN "healthy"
                                           ELSE "unhealthy"]
    \/ /\ probes[b] > (IF newest[b] = "pending" THEN 1 ELSE 0)
       /\ UNCHANGED newest

\* A probe that also clears the failure count of a backend found healthy.
CheckDoneResetFailCount(b) ==
    /\ probes[b] > 0
    /\ probes' = [probes EXCEPT ![b] = @ - 1]
    /\ CheckLeaves(b)
    /\ CheckEffect(b, env[b])
    /\ failCount' = IF ProbeHealthy(env[b]) THEN [failCount EXCEPT ![b] = 0]
                     ELSE failCount
    /\ UNCHANGED <<connections, strategyVars, routerVars, histVars, stats,
                   tally, lockVars, constructVars, poolVars, callerVars, hcPc, ctxDone, tickPending, env>>

\* A hc.check(b) goroutine completes with what the backend answers now.
CheckDone(b) ==
    /\ probes[b] > 0
    /\ probes' = [probes EXCEPT ![b] = @ - 1]
    /\ CheckLeaves(b)
    /\ CheckEffect(b, env[b])
    /\ UNCHANGED <<connections, failCount, strategyVars, routerVars, histVars, stats,
                   tally, lockVars, constructVars, poolVars, callerVars, hcPc, ctxDone, tickPending, env>>

\* The backend server starts answering probes differently.
EnvChange(b, outcome) ==
    /\ env[b] # outcome
    /\ env' = [env EXCEPT ![b] = outcome]
    /\ UNCHANGED <<backendVars, strategyVars, routerVars, histVars, stats, tally, lockVars, constructVars, poolVars, callerVars,
                   hcPc, ctxDone, tickPending, probes, newest>>

\* A forward to b fails at transport level: the whole ErrorHandler.
ForwardFailure(b) ==
    /\ failCount[b] < MaxFail
    /\ failCount' = [failCount EXCEPT ![b] = @ + 1]
    /\ alive' = [alive EXCEPT ![b] = FALSE]
    /\ UNCHANGED <<connections, responseTime, strategyVars, routerVars, histVars,
                   otherVars>>

InitMonitor ==
    /\ NewBackend
    /\ NewStrategy(RoundRobinStrategy, <<>>)
    /\ NewMetrics
    /\ NoHistory
    /\ MonitorIdle
    /\ LockIdle
    /\ NoPool
    /\ NoCaller
    /\ NoConfig

NextMonitor ==
    \/ Start
    \/ StartInitialCheck
    \/ Tick
    \/ StartLoopTick
    \/ StartLoopDone
    \/ Cancel
    \/ \E b \in HcBackends : CheckDone(b)
    \/ \E b \in HcBackends, outcome \in ProbeOutcomes : EnvChange(b, outcome)
    \/ \E b \in HcBackends : ForwardFailure(b)

SpecMonitor == InitMonitor /\ [][NextMonitor]_vars

\* The ticker keeps firing, the monitor goroutine keeps running, and every
\* probe completes (its client has a timeout).
FairMonitor ==
    /\ WF_vars(StartInitialCheck)
    /\ WF_vars(Tick)
    /\ WF_vars(StartLoopTick)
    /\ \A b \in HcBackends : WF_vars(CheckDone(b))

SpecRecovery == SpecMonitor /\ FairMonitor

\* A select with several ready cases picks one at random: once ctx.Done() is
\* closed its case stays ready and is eventually the one picked.
FairShutdown == WF_vars(StartLoopDone)

SpecShutdown == SpecMonitor /\ FairMonitor /\ FairShutdown

\* ----------------------------------------------------- swapping strategies
\* The selection of ServeHTTP step by step, with lb.mu explicit, next to
\* SetStrategy and GetStrategy.  The forward that follows a selection is one
\* step here.
RestOfLock == <<backendVars, weights, TotalRequests, FailedRequests, histVars, stats,
                tally, monitorVars, constructVars, poolVars, callerVars>>

\* ServeHTTP: lb.mu.RLock(), which waits while SetStrategy holds the lock.
ServeHTTPRLock(h) ==
    /\ req[h].pc = "select"
    /\ ~mu.writer
    /\ mu' = [mu EXCEPT !.readers = @ \cup {h}]
    /\ req' = [req EXCEPT ![h].pc = "rlocked"]
    /\ UNCHANGED <<RestOfLock, strategy, rrCurrent, wrrCurrent, setPc, setArg, using, got>>

\* ServeHTTP: the read of lb.strategy.
ServeHTTPLoadStrategy(h) ==
    /\ req[h].pc = "rlocked"
    /\ using' = [using EXCEPT ![h] = strategy]
    /\ req' = [req EXCEPT ![h].pc = "selecting"]
    /\ UNCHANGED <<RestOfLock, strategy, rrCurrent, wrrCurrent, mu, setPc, setArg, got>>

\* ServeHTTP: the SelectBackend call on the value read.
ServeHTTPSelectBackend(h) ==
    /\ req[h].pc = "selecting"
    /\ \E r \in SelectBackendWith(using[h]) :
          /\ rrCurrent' = r.rr
          /\ wrrCurrent' = r.wrr
          /\ req' = [req EXCEPT ![h].backend = r.backend, ![h].pc = "selected"]
    /\ UNCHANGED <<RestOfLock, strategy, mu, setPc, setArg, using, got>>

\* ServeHTTP: lb.mu.RUnlock() and the nil test.
ServeHTTPRUnlock(h) ==
    /\ req[h].pc = "selected"
    /\ mu' = [mu EXCEPT !.readers = @ \ {h}]
    /\ req' = [req EXCEPT ![h].pc = IF req[h].backend = Nil THEN "unavailable"
                                     ELSE "serve"]
    /\ UNCHANGED <<RestOfLock, strategy, rrCurrent, wrrCurrent, setPc, setArg, using, got>>

\* Backend.Serve from start to end, answered by the backend.
ServeAnswered(h) ==
    /\ req[h].pc = "serve"
    /\ req[h].backend \in Backends
    /\ \E status \in BackendStatuses, d \in Durations :
          /\ failCount' = IF status < 500 THEN [failCount EXCEPT ![req[h].backend] = 0]
                           ELSE failCount
          /\ responseTime' = [responseTime EXCEPT ![req[h].backend] = d]
          /\ req' = [req EXCEPT ![h].code = status, ![h].pc = "done"]
    /\ UNCHANGED <<alive, connections, strategyVars, TotalRequests, FailedRequests,
                   histVars, otherVars>>

\* A Lock that does not wait for the readers.
SetStrategyLockNoWait(s) ==
    /\ setPc = "idle"
    /\ ~mu.writer
    /\ mu' = [mu EXCEPT !.writer = TRUE]
    /\ setPc' = "locked"
    /\ setArg' = s
    /\ UNCHANGED <<RestOfLock, strategy, rrCurrent, wrrCurrent, req, using, got>>

\* SetStrategy(s): lb.mu.Lock(), which waits for the readers to leave.
SetStrategyLock(s) ==
    /\ setPc = "idle"
    /\ ~mu.writer
    /\ mu.readers = {}
    /\ mu' = [mu EXCEPT !.writer = TRUE]
    /\ setPc' = "locked"
    /\ setArg' = s
    /\ UNCHANGED <<RestOfLock, strategy, rrCurrent, wrrCurrent, req, using, got>>

\* SetStrategy: lb.strategy = s.  s is a fresh instance (NewRoundRobin(),
\* ...), so a cursor it has starts at 0.
SetStrategyStore ==
    /\ setPc = "locked"
    /\ strategy' = setArg
    /\ rrCurrent' = IF setArg = RoundRobinStrategy THEN 0 ELSE rrCurrent
    /\ wrrCurrent' = IF setArg = WeightedRoundRobinStrategy THEN 0 ELSE wrrCurrent
    /\ setPc' = "stored"
    /\ UNCHANGED <<RestOfLock, req, mu, setArg, using, got>>

\* SetStrategy: the deferred lb.mu.Unlock(), and the return.
SetStrategyUnlock ==
    /\ setPc = "stored"
    /\ mu' = [mu EXCEPT !.writer = FALSE]
    /\ setPc' = "idle"
    /\ UNCHANGED <<RestOfLock, strategy, rrCurrent, wrrCurrent, req, setArg, using, got>>

\* GetStrategy: return lb.strategy, read without the lock.
GetStrategy ==
    /\ got' = strategy
    /\ UNCHANGED <<RestOfLock, strategy, rrCurrent, wrrCurrent, req, mu, setPc, setArg,
                   using>>

NextSetStrategy ==
    \/ \E h \in Handlers :
          \/ ServeHTTP(h)
          \/ ServeHTTPRLock(h)
          \/ ServeHTTPLoadStrategy(h)
          \/ ServeHTTPSelectBackend(h)
          \/ ServeHTTPRUnlock(h)
          \/ ServeAnswered(h)
    \/ \E s \in Strategies : SetStrategyLock(s)
    \/ SetStrategyStore
    \/ SetStrategyUnlock
    \/ GetStrategy

SpecSetStrategy == Init /\ [][NextSetStrategy]_vars

\* ------------------------------------------------ building the load balancer
\* Durations are in seconds.
DefaultHealthCheckInterval == 10
DefaultHealthCheckTimeout == 5

\* One-character strings of a string.
CharsOf(s) == {SubSeq(s, i, i) : i \in 1..Len(s)}

IsLetter(c) == c \in CharsOf("abcdefghijklmnopqrstuvwxyzABCDEFGHIJKLMNOPQRSTUVWXYZ")

IsDigit(c) == c \in CharsOf("0123456789")

HasPrefix(s, prefix) ==
    /\ Len(s) >= Len(prefix)
    /\ SubSeq(s, 1, Len(prefix)) = prefix

\* Position of the first (last) occurrence of the character c in s, 0 if none.
Index(s, c) ==
    IF \E i \in 1..Len(s) : SubSeq(s, i, i) = c
    THEN CHOOSE i \in 1..Len(s) :
            /\ SubSeq(s, i, i) = c
            /\ \A j \in 1..(i - 1) : SubSeq(s, j, j) # c
    ELSE 0

LastIndex(s, c) ==
    IF \E i \in 1..Len(s) : SubSeq(s, i, i) = c
    THEN CHOOSE i \in 1..Len(s) :
            /\ SubSeq(s, i, i) = c
            /\ \A j \in (i + 1)..Len(s) : SubSeq(s, j, j) # c
    ELSE 0

\* url.getScheme: the scheme is the run of letters, digits, "+", "-", "."
\* before the first ":"; a ":" in first position is an error.
RECURSIVE getSchemeFrom(_, _)
getSchemeFrom(rawURL, i) ==
    IF i > Len(rawURL) THEN [scheme |-> "", path |-> rawURL, err |-> ""]
    ELSE LET c == SubSeq(rawURL, i, i)
         IN  IF IsLetter(c) THEN getSchemeFrom(rawURL, i + 1)
             ELSE IF IsDigit(c) \/ c \in {"+", "-", "."}
             THEN IF i = 1 THEN [scheme |-> "", path |-> rawURL, err |-> ""]
                  ELSE getSchemeFrom(rawURL, i + 1)
             ELSE IF c = ":"
             THEN IF i = 1
                  THEN [scheme |-> "", path |-> "", err |-> "missing protocol scheme"]
                  ELSE [scheme |-> SubSeq(rawURL, 1, i - 1),
                        path |-> SubSeq(rawURL, i + 1, Len(rawURL)), err |-> ""]
             ELSE [scheme |-> "", path |-> rawURL, err |-> ""]

getScheme(rawURL) == getSchemeFrom(rawURL, 1)

\* url.validOptionalPort: "" or ":" followed by digits only.
validOptionalPort(port) ==
    \/ port = ""
    \/ /\ SubSeq(port, 1, 1) = ":"
       /\ \A i \in 2..Len(port) : IsDigit(SubSeq(port, i, i))

NoURL == [Scheme |-> "", Opaque |-> "", Host |-> "", Path |-> ""]

\* url.Parse, for strings without user info, query, fragment, escapes,
\* brackets or control bytes.
Parse(rawURL) ==
    LET s == getScheme(rawURL)
        rest == s.path
    IN  IF s.err # "" THEN [url |-> NoURL, err |-> s.err]
        ELSE IF ~HasPrefix(rest, "/")
        THEN IF s.scheme # ""
             THEN [url |-> [NoURL EXCEPT !.Scheme = s.scheme, !.Opaque = rest],
                   err |-> ""]
             ELSE LET slash == Index(rest, "/")
                      segment == IF slash = 0 THEN rest
                                 ELSE SubSeq(rest, 1, slash - 1)
                  IN  IF Index(segment, ":") # 0
                      THEN [url |-> NoURL,
                            err |-> "first path segment in URL cannot contain colon"]
                      ELSE [url |-> [NoURL EXCEPT !.Path = rest], err |-> ""]
        ELSE IF HasPrefix(rest, "//")
        THEN LET after == SubSeq(rest, 3, Len(rest))
                 slash == Index(after, "/")
                 authority == IF slash = 0 THEN after
                              ELSE SubSeq(after, 1, slash - 1)
                 path == IF slash = 0 THEN ""
                         ELSE SubSeq(after, slash, Len(after))
                 colon == LastIndex(authority, ":")
             IN  IF colon # 0
                    /\ ~validOptionalPort(SubSeq(authority, colon, Len(authority)))
                 THEN [url |-> NoURL, err |-> "invalid port after host"]
                 ELSE [url |-> [NoURL EXCEPT !.Scheme = s.scheme,
                                             !.Host = authority, !.Path = path],
                       err |-> ""]
        ELSE [url |-> [NoURL EXCEPT !.Scheme = s.scheme, !.Path = rest], err |-> ""]

\* URL.String, for the URLs Parse builds.
URLString(u) ==
    (IF u.Scheme # "" THEN u.Scheme \o ":" ELSE "")
    \o (IF u.Opaque # "" THEN u.Opaque
        ELSE (IF (u.Scheme # "" \/ u.Host # "") /\ (u.Host # "" \/ u.Path # "")
              THEN "//" ELSE "")
             \o u.Host \o u.Path)

\* The strings a configuration may name as backend URLs.
URLStrings ==
    {"http://localhost:8081", "http://localhost:8082", "localhost:8083",
     "://invalid", "http://localhost:port", ""}

NilStrategy == "nil"

RECURSIVE SeqsUpTo(_, _)
SeqsUpTo(S, n) ==
    IF n = 0 THEN {<<>>}
    ELSE LET shorter == SeqsUpTo(S, n - 1)
         IN  shorter \cup {Append(q, x) : q \in shorter, x \in S}

Configs ==
    [BackendURLs : SeqsUpTo(URLStrings, MaxConfigURLs),
     Strategy : Strategies \cup {NilStrategy},
     HealthCheckInterval : {0, 30},
     HealthCheckTimeout : {0, 2}]

\* A constructor that leaves Alive at its zero value.
NewBackendForNotAlive(urlStr) ==
    LET p == Parse(urlStr)
    IN  IF p.err # "" THEN [backend |-> {}, err |-> p.err]
        ELSE [backend |-> {[URL |-> p.url, Alive |-> FALSE, Connections |-> 0,
                            FailCount |-> 0]},
              err |-> ""]

\* backend.NewBackend: the fields of a fresh backend, or the parse error.
NewBackendFor(urlStr) ==
    LET p == Parse(urlStr)
    IN  IF p.err # "" THEN [backend |-> {}, err |-> p.err]
        ELSE [backend |-> {[URL |-> p.url, Alive |-> TRUE, Connections |-> 0,
                            FailCount |-> 0]},
              err |-> ""]

\* The "create backends" loop: it stops at the first URL that fails.
RECURSIVE CreateBackends(_, _)
CreateBackends(urls, made) ==
    IF urls = <<>> THEN [backends |-> made, err |-> ""]
    ELSE LET r == NewBackendFor(Head(urls))
         IN  IF r.err # ""
             THEN [backends |-> <<>>,
                   err |-> "failed to create backend for " \o Head(urls)]
             ELSE CreateBackends(Tail(urls), made \o <<CHOOSE b \in r.backend : TRUE>>)

NewHealthChecker(backends, interval, timeout) ==
    [backends |-> backends, interval |-> interval, timeout |-> timeout]

\* A constructor that falls back to round robin when no strategy is given.
NewLoadBalancerDefaultStrategy(cfg) ==
    IF Len(cfg.BackendURLs) = 0
    THEN [lb |-> {}, err |-> "no backend URLs provided"]
    ELSE LET strat == IF cfg.Strategy = NilStrategy THEN RoundRobinStrategy
                      ELSE cfg.Strategy
             created == CreateBackends(cfg.BackendURLs, <<>>)
         IN  IF created.err # "" THEN [lb |-> {}, err |-> created.err]
             ELSE [lb |-> {[backends |-> created.backends,
                            strategy |-> strat,
                            metrics |-> [TotalRequests |-> 0, FailedRequests |-> 0],
                            healthChecker |->
                                NewHealthChecker(created.backends, 10, 5)]},
                   err |-> ""]

\* NewLoadBalancer: the pair (load balancer, error) it returns; a nil pointer
\* is the empty set, a nil error the empty string.
NewLoadBalancer(cfg) ==
    IF Len(cfg.BackendURLs) = 0
    THEN [lb |-> {}, err |-> "no backend URLs provided"]
    ELSE IF cfg.Strategy = NilStrategy
    THEN [lb |-> {}, err |-> "no strategy provided"]
    ELSE LET interval == IF cfg.HealthCheckInterval = 0
                         THEN DefaultHealthCheckInterval
                         ELSE cfg.HealthCheckInterval
             timeout == IF cfg.HealthCheckTimeout = 0
                        THEN DefaultHealthCheckTimeout
                        ELSE cfg.HealthCheckTimeout
             created == CreateBackends(cfg.BackendURLs, <<>>)
         IN  IF created.err # "" THEN [lb |-> {}, err |-> created.err]
             ELSE [lb |-> {[backends |-> created.backends,
                            strategy |-> cfg.Strategy,
                            metrics |-> [TotalRequests |-> 0, FailedRequests |-> 0],
                            healthChecker |->
                                NewHealthChecker(created.backends, interval, timeout)]},
                   err |-> ""]

\* A caller builds a load balancer from its configuration.
NewLoadBalancerCall ==
    /\ built = <<>>
    /\ built' = <<NewLoadBalancer(config)>>
    /\ UNCHANGED <<backendVars, strategyVars, routerVars, histVars, stats, tally,
                   monitorVars, lockVars, poolVars, callerVars, config>>

InitConstruct ==
    /\ NewBackend
    /\ NewStrategy(RoundRobinStrategy, <<>>)
    /\ NewMetrics
    /\ NoHistory
    /\ MonitorIdle
    /\ LockIdle
    /\ NoPool
    /\ NoCaller
    /\ config \in Configs
    /\ built = <<>>

NextConstruct == NewLoadBalancerCall

SpecConstruct == InitConstruct /\ [][NextConstruct]_vars

\* ----------------------------------------------------------- fresh backends
\* Backends are made one by one with NewBackend from the configured strings;
\* a strategy is asked to select from a list holding one of them; once all are
\* made the monitor may start and run its first round.  built[i] is what
\* NewBackend returned for the i-th string.
Created == {b \in 1..Len(built) : built[b].err = ""}

\* Before NewBackend has run a Backend is the zero value.
ZeroBackends ==
    /\ alive = [b \in Backends |-> FALSE]
    /\ connections = [b \in Backends |-> 0]
    /\ responseTime = [b \in Backends |-> 0]
    /\ failCount = [b \in Backends |-> 0]

FreshWeightMaps == UNION {[D -> {0, 1, MaxWeight}] : D \in SUBSET (1..NumURLs)}

NewBackendCall ==
    /\ Len(built) < NumURLs
    /\ LET b == Len(built) + 1
           r == NewBackendFor(config.BackendURLs[b])
       IN  /\ built' = Append(built, r)
           /\ alive' = [alive EXCEPT ![b] = \E n \in r.backend : n.Alive]
           /\ connections' = [connections EXCEPT
                                 ![b] = IF \E n \in r.backend : n.Connections # 0
                                        THEN 1 ELSE 0]
           /\ failCount' = [failCount EXCEPT
                               ![b] = IF \E n \in r.backend : n.FailCount # 0
                                      THEN 1 ELSE 0]
    /\ UNCHANGED <<responseTime, strategyVars, routerVars, histVars, stats, tally,
                   monitorVars, lockVars, poolVars, callerVars, config>>

\* SelectBackend([]*Backend{b}) on the strategy in use.
FreshSelect(b) ==
    /\ b \in Created
    /\ rrCurrent < MaxFreshCalls
    /\ wrrCurrent < MaxFreshCalls
    /\ \E r \in (CASE strategy = RoundRobinStrategy ->
                        {RoundRobinSelectBackend(<<b>>, alive, rrCurrent)}
                   [] strategy = WeightedRoundRobinStrategy ->
                        {WeightedRoundRobinSelectBackend(<<b>>, alive, weights,
                                                         wrrCurrent)}
                   [] strategy = LeastConnectionsStrategy ->
                        {[backend |-> LeastConnectionsSelectBackend(<<b>>, alive,
                                                                    connections),
                          current |-> 0]}
                   [] strategy = RandomStrategy ->
                        {[backend |-> x, current |-> 0] :
                            x \in RandomSelectBackend(<<b>>, alive)}
                   [] strategy = IPHashStrategy ->
                        {[backend |-> IPHashSelectBackend(<<b>>, alive),
                          current |-> 0]}) :
          /\ rrCurrent' = IF strategy = RoundRobinStrategy THEN r.current
                          ELSE rrCurrent
          /\ wrrCurrent' = IF strategy = WeightedRoundRobinStrategy THEN r.current
                           ELSE wrrCurrent
          /\ last' = [NoCall EXCEPT !.op = "select", !.backend = b,
                                    !.result = r.backend]
    /\ UNCHANGED <<backendVars, strategy, weights, routerVars, selLog, downed,
                   otherVars>>

\* LoadBalancer.Start, once every backend has been made.
FreshStart ==
    /\ Created = 1..NumURLs
    /\ Start

InitFresh ==
    /\ ZeroBackends
    /\ \E s \in Strategies :
          /\ \E w \in (IF s = WeightedRoundRobinStrategy THEN FreshWeightMaps
                       ELSE {<<>>}) : NewStrategy(s, w)
          /\ \E urls \in [1..NumURLs -> URLStrings] :
                config = [BackendURLs |-> urls, Strategy |-> s,
                          HealthCheckInterval |-> 0, HealthCheckTimeout |-> 0]
    /\ built = <<>>
    /\ NewMetrics
    /\ NoHistory
    /\ MonitorIdle
    /\ LockIdle
    /\ NoPool
    /\ NoCaller

NextFresh ==
    \/ NewBackendCall
    \/ \E b \in 1..NumURLs : FreshSelect(b)
    \/ FreshStart
    \/ StartInitialCheck
    \/ \E b \in HcBackends : CheckDone(b)
    \/ \E b \in HcBackends : EnvChange(b, ProbeError)

SpecFresh == InitFresh /\ [][NextFresh]_vars

\* ------------------------------------------------------------ the server pool
\* A ServerPool: backends are added in order (the i-th added is backend i),
\* marked by address, and callers ask for the next index.  AddBackend is
\* called only while no NextIndex call is in progress.
PoolURLs == {"http://localhost:8081", "http://localhost:8082"}

\* b.URL.String() of the backend NewBackend makes from each of them, and
\* whether url.Parse accepts it.
PoolURLPrinted == [u \in PoolURLs |-> URLString(Parse(u).url)]

PoolURLParses == [u \in PoolURLs |-> Parse(u).err = ""]

InCall(c) == nextIdx[c].pc \in {"add", "mod"} \/ peer[c].pc \in {"index", "scan"}

\* ServerPool.AddBackend, on a backend made by NewBackend(u).
AddBackend(u) ==
    /\ Len(pool) < NumBackends
    /\ \A c \in Handlers : ~InCall(c)
    /\ PoolURLParses[u]
    /\ pool' = Append(pool, PoolURLPrinted[u])
    /\ UNCHANGED <<backendVars, strategyVars, routerVars, histVars, stats, tally,
                   monitorVars, lockVars, constructVars, callerVars, spCurrent, nextIdx, observed, peer>>

\* A marking that takes the first backend of the pool, whatever its address.
MarkBackendStatusFirstOfPool(u, v) ==
    /\ alive' = IF Len(pool) = 0 THEN alive ELSE [alive EXCEPT ![1] = v]
    /\ last' = [NoCall EXCEPT !.op = "mark", !.url = PoolURLPrinted[u],
                              !.result = IF v THEN 1 ELSE 0]
    /\ UNCHANGED <<connections, responseTime, failCount, strategyVars, routerVars,
                   selLog, downed, otherVars>>

\* ServerPool.MarkBackendStatus: SetAlive on the first backend whose URL
\* prints as the given one; nothing if there is none.
MarkBackendStatus(u, v) ==
    /\ LET matching == {i \in 1..Len(pool) : pool[i] = PoolURLPrinted[u]}
       IN  alive' = IF matching = {} THEN alive
                    ELSE [alive EXCEPT
                             ![CHOOSE i \in matching : \A j \in matching : i <= j] = v]
    /\ last' = [NoCall EXCEPT !.op = "mark", !.url = PoolURLPrinted[u],
                              !.result = IF v THEN 1 ELSE 0]
    /\ UNCHANGED <<connections, responseTime, failCount, strategyVars, routerVars,
                   selLog, downed, otherVars>>

\* ServerPool.NextIndex up to the length test: on an empty pool it returns 0.
NextIndexRLock(c) ==
    /\ ~InCall(c)
    /\ spCurrent < MaxCalls
    /\ nextIdx' = [nextIdx EXCEPT
                      ![c] = IF Len(pool) = 0
                             THEN [pc |-> "returned", cur |-> 0, result |-> 0]
                             ELSE [pc |-> "add", cur |-> 0, result |-> 0]]
    /\ UNCHANGED <<backendVars, strategyVars, routerVars, histVars, stats, tally,
                   monitorVars, lockVars, constructVars, callerVars, pool, spCurrent, observed, peer>>

\* NextIndex: atomic.AddUint64(&sp.current, 1), which returns the new value.
NextIndexAdd(c) ==
    /\ nextIdx[c].pc = "add"
    /\ spCurrent' = AddUint64(spCurrent)
    /\ nextIdx' = [nextIdx EXCEPT ![c].cur = AddUint64(spCurrent), ![c].pc = "mod"]
    /\ observed' = Append(observed, AddUint64(spCurrent))
    /\ UNCHANGED <<backendVars, strategyVars, routerVars, histVars, stats, tally,
                   monitorVars, lockVars, constructVars, callerVars, pool, peer>>

\* A NextIndex that reduces modulo the number of alive backends.
NextIndexReturnModAlive(c) ==
    /\ nextIdx[c].pc = "mod"
    /\ LET n == Cardinality({i \in 1..Len(pool) : alive[i]})
       IN  nextIdx' = [nextIdx EXCEPT
                          ![c].result = IF n = 0 THEN 0 ELSE nextIdx[c].cur % n,
                          ![c].pc = "returned"]
    /\ UNCHANGED <<backendVars, strategyVars, routerVars, histVars, stats, tally,
                   monitorVars, lockVars, constructVars, callerVars, pool, spCurrent, observed, peer>>

\* NextIndex: int(... % uint64(len(sp.backends))), and the deferred RUnlock.
NextIndexReturn(c) ==
    /\ nextIdx[c].pc = "mod"
    /\ nextIdx' = [nextIdx EXCEPT ![c].result = nextIdx[c].cur % Len(pool),
                                  ![c].pc = "returned"]
    /\ UNCHANGED <<backendVars, strategyVars, routerVars, histVars, stats, tally,
                   monitorVars, lockVars, constructVars, callerVars, pool, spCurrent, observed, peer>>

\* A scan that starts at the head of the list.
GetNextPeerScanFromHead(c) ==
    /\ peer[c].pc = "scan"
    /\ LET idx == peer[c].i % peer[c].l
           now == peer[c].stable /\ alive = peer[c].from
       IN  peer' = [peer EXCEPT
                       ![c] = IF peer[c].i >= peer[c].l
                              THEN [@ EXCEPT !.pc = "returned", !.result = Nil]
                              ELSE IF alive[idx + 1]
                              THEN [@ EXCEPT !.pc = "returned", !.result = idx + 1,
                                             !.stable = now]
                              ELSE [@ EXCEPT !.i = @ + 1, !.stable = now]]
    /\ UNCHANGED <<backendVars, strategyVars, routerVars, histVars, stats, tally,
                   monitorVars, lockVars, constructVars, callerVars, pool, spCurrent,
                   nextIdx, observed>>

\* ServerPool.GetNextPeer up to the length test: on an empty pool it returns
\* nil.
GetNextPeerRLock(c) ==
    /\ ~InCall(c)
    /\ spCurrent < MaxPeerCalls
    /\ peer' = [peer EXCEPT
                   ![c] = IF Len(pool) = 0
                          THEN [IdlePeer EXCEPT !.pc = "returned", !.from = alive]
                          ELSE [IdlePeer EXCEPT !.pc = "index", !.from = alive]]
    /\ UNCHANGED <<backendVars, strategyVars, routerVars, histVars, stats, tally,
                   monitorVars, lockVars, constructVars, callerVars, pool, spCurrent,
                   nextIdx, observed>>

\* GetNextPeer: next := sp.NextIndex(), whose only write is the atomic add, and
\* l := len(sp.backends).
GetNextPeerNextIndex(c) ==
    /\ peer[c].pc = "index"
    /\ spCurrent' = AddUint64(spCurrent)
    /\ observed' = Append(observed, AddUint64(spCurrent))
    /\ peer' = [peer EXCEPT ![c].next = AddUint64(spCurrent) % Len(pool),
                            ![c].l = Len(pool),
                            ![c].adds = @ + 1,
                            ![c].pc = "scan"]
    /\ UNCHANGED <<backendVars, strategyVars, routerVars, histVars, stats, tally,
                   monitorVars, lockVars, constructVars, callerVars, pool, nextIdx>>

\* GetNextPeer: one turn of the loop, idx := (next + i) % l and the IsAlive
\* test, or the return nil after the loop.
GetNextPeerScan(c) ==
    /\ peer[c].pc = "scan"
    /\ LET idx == (peer[c].next + peer[c].i) % peer[c].l
           now == peer[c].stable /\ alive = peer[c].from
       IN  peer' = [peer EXCEPT
                       ![c] = IF peer[c].i >= peer[c].l
                              THEN [@ EXCEPT !.pc = "returned", !.result = Nil]
                              ELSE IF alive[idx + 1]
                              THEN [@ EXCEPT !.pc = "returned", !.result = idx + 1,
                                             !.stable = now]
                              ELSE [@ EXCEPT !.i = @ + 1, !.stable = now]]
    /\ UNCHANGED <<backendVars, strategyVars, routerVars, histVars, stats, tally,
                   monitorVars, lockVars, constructVars, callerVars, pool, spCurrent,
                   nextIdx, observed>>

InitPool ==
    /\ NewBackend
    /\ NewStrategy(RoundRobinStrategy, <<>>)
    /\ NewMetrics
    /\ NoHistory
    /\ MonitorIdle
    /\ LockIdle
    /\ NoPool
    /\ NoCaller
    /\ NoConfig

NextPool ==
    \/ \E u \in PoolURLs : AddBackend(u)
    \/ \E u \in PoolURLs, v \in BOOLEAN : MarkBackendStatus(u, v)
    \/ \E c \in Handlers :
          \/ NextIndexRLock(c)
          \/ NextIndexAdd(c)
          \/ NextIndexReturn(c)

SpecPool == InitPool /\ [][NextPool]_vars

\* The same pool with callers of GetNextPeer.
NextPeer ==
    \/ \E u \in PoolURLs : AddBackend(u)
    \/ \E u \in PoolURLs, v \in BOOLEAN : MarkBackendStatus(u, v)
    \/ \E c \in Handlers :
          \/ GetNextPeerRLock(c)
          \/ GetNextPeerNextIndex(c)
          \/ GetNextPeerScan(c)

SpecPeer == InitPool /\ [][NextPeer]_vars

\* ----------------------------------------------------- claims on selection
AliveSet == {b \in Backends : alive[b]}

Selected == last.op = "select"

\* C2: whenever SelectBackend returns a backend, that backend was alive when
\* the strategy read it during the call.
C2_ReturnedBackendAlive ==
    (Selected /\ last.result # Nil) => IsAlive(last.result)

\* C3 as stated: a non-empty list with at least one alive backend always
\* yields a backend, for every strategy.
C3_AliveYieldsBackend ==
    (Selected /\ ~last.empty /\ AliveSet # {}) => last.result \in Backends

\* C3 as amended: a non-empty list with at least one alive backend that the
\* strategy may use (for WeightedRoundRobin: of positive weight) yields a
\* backend of the list.
Usable(b) ==
    alive[b] /\ (strategy = WeightedRoundRobinStrategy => WeightOf(weights, b) > 0)

C3_UsableYieldsBackend ==
    (Selected /\ ~last.empty /\ \E b \in Backends : Usable(b))
        => last.result \in Backends

C3_Witness ==
    /\ Selected /\ ~last.empty
    /\ strategy = WeightedRoundRobinStrategy
    /\ Cardinality(AliveSet) = 1
    /\ \E b \in Backends : Usable(b) /\ last.result = b

\* C4: SelectBackend returns nil on the empty list and on a list whose
\* backends are all not-alive, for every strategy.
C4_NoneWhenEmptyOrAllDead ==
    (Selected /\ (last.empty \/ AliveSet = {})) => last.result = Nil

\* The members of S in registration order.
InOrder(S) ==
    [i \in 1..Cardinality(S) |->
        CHOOSE b \in S : Cardinality({c \in S : c < b}) = i - 1]

\* How often b occurs in seq[lo..hi].
Count(seq, b, lo, hi) == Cardinality({j \in lo..hi : seq[j] = b})

\* The backend after b in the cyclic registration order of S.
NextInOrder(S, b) ==
    LET A == InOrder(S)
        i == CHOOSE j \in 1..Len(A) : A[j] = b
    IN  A[(i % Len(A)) + 1]

\* C6: with N alive backends and no liveness change, consecutive RoundRobin
\* calls walk the alive backends in cyclic registration order, so any N
\* consecutive calls return each alive backend exactly once and k*N calls
\* return each exactly k times; the first call on a fresh instance returns
\* the first registered alive backend.
C6_RoundRobinFair ==
    strategy = RoundRobinStrategy =>
        LET N == Cardinality(AliveSet)
            L == Len(selLog)
        IN  /\ \A i \in 1..(L - 1) : selLog[i + 1] = NextInOrder(AliveSet, selLog[i])
            /\ \A i \in 1..L : (i + N - 1 <= L) =>
                  \A b \in AliveSet : Count(selLog, b, i, i + N - 1) = 1
            /\ \A k \in 1..L : (k * N <= L) =>
                  \A b \in AliveSet : Count(selLog, b, 1, k * N) = k
            /\ (L >= 1 /\ rrCurrent = L) => selLog[1] = InOrder(AliveSet)[1]

C6_Witness ==
    /\ strategy = RoundRobinStrategy
    /\ AliveSet = Backends
    /\ Len(selLog) = 2 * NumBackends

\* C7: LeastConnections returns an alive backend whose connection count is
\* minimal among the alive backends, the first such in list order; counts
\* [2,0,1] give the second backend, [0,0,1] the first, [2,1,0] the third.
LeastConnectionsCase(c, r) ==
    (AliveSet = 1..3 /\ \A i \in 1..3 : connections[i] = c[i]) => last.result = r

Share(b) == IF alive[b] THEN WeightOf(weights, b) ELSE 0

RECURSIVE SharesUpTo(_)
SharesUpTo(b) == IF b = 0 THEN 0 ELSE SharesUpTo(b - 1) + Share(b)

ExpandedAt(p) ==
    CHOOSE b \in Backends : SharesUpTo(b - 1) < p /\ p <= SharesUpTo(b)

\* C8: with liveness unchanged and total weight W, consecutive
\* WeightedRoundRobin calls walk the expanded sequence cyclically, so any W
\* consecutive calls return each backend b exactly weight(b) times and k*W
\* calls exactly k*weight(b) times (weights 3:1 give 3:1).
C8_WeightedDistribution ==
    strategy = WeightedRoundRobinStrategy =>
        LET W == SharesUpTo(NumBackends)
            L == Len(selLog)
            start == wrrCurrent - L
        IN  /\ \A i \in 1..L : selLog[i] = ExpandedAt(((start + i - 1) % W) + 1)
            /\ \A i \in 1..L : (i + W - 1 <= L) =>
                  \A b \in Backends : Count(selLog, b, i, i + W - 1) = Share(b)
            /\ \A k \in 1..L : (k * W <= L) =>
                  \A b \in Backends : Count(selLog, b, 1, k * W) = k * Share(b)

C8_Witness ==
    /\ strategy = WeightedRoundRobinStrategy
    /\ AliveSet = Backends
    /\ WeightOf(weights, 1) = 3
    /\ \A b \in Backends \ {1} : WeightOf(weights, b) = 1
    /\ Len(selLog) = 2 * SharesUpTo(NumBackends)
    /\ Count(selLog, 1, 1, Len(selLog)) = 6

\* b is a result the strategy in use can give on the registered list, in
\* the present state or after further calls that leave liveness unchanged.
CanReturn(b) ==
    CASE strategy = RoundRobinStrategy ->
           \E k \in 0..(NumBackends - 1) :
               RoundRobinSelectBackend(AllBackends, alive, rrCurrent + k).backend = b
      [] strategy = WeightedRoundRobinStrategy ->
           WeightOf(weights, b) > 0 =>
               \E k \in 0..(NumBackends * MaxWeight - 1) :
                   WeightedRoundRobinSelectBackend(
                       AllBackends, alive, weights, wrrCurrent + k).backend = b
      [] strategy = RandomStrategy ->
           b \in RandomSelectBackend(AllBackends, alive)
      [] strategy = LeastConnectionsStrategy ->
           (\A c \in AliveSet \ {b} : connections[b] < connections[c]) =>
               LeastConnectionsSelectBackend(AllBackends, alive, connections) = b
      [] strategy = IPHashStrategy ->
           (\A c \in AliveSet : b <= c) => IPHashSelectBackend(AllBackends, alive) = b

\* C9: once a backend is marked not-alive, no SelectBackend call returns it
\* while it stays not-alive; once it is marked alive again it is again a
\* possible result, for every strategy that can reach it.
C9_Failover ==
    /\ Selected => \A b \in Backends : ~alive[b] => last.result # b
    /\ \A b \in downed : alive[b] => CanReturn(b)

C9_Witness ==
    \E b \in downed : alive[b] /\ Selected /\ last.result = b

\* ---------------------------------------------------------------- claim C5
\* The forwards in flight on b: Backend.Serve calls that have incremented
\* the count and whose deferred function has not yet decremented it.
InFlight(b) ==
    {h \in Handlers : req[h].backend = b /\ req[h].pc \in {"proxy", "errorhandler", "release"}}

\* C5: for every backend, in every reachable state, the connection count
\* equals the number of forwards in flight on it; each forward adds one before
\* dispatch and takes one off on every exit path (response, transport error,
\* panic), so the count is 0 whenever no forward is in flight.
C5_ConnectionsAreInFlight ==
    \A b \in Backends : connections[b] = Cardinality(InFlight(b))

\* A forward on b has ended in a panic, another one has ended in a transport
\* error or is past it, and b's count shows exactly the forwards in flight.
C5_Witness ==
    \E b \in Backends : \E h, g \in Handlers :
        /\ h # g
        /\ req[h].backend = b /\ req[h].pc = "panicked"
        /\ req[g].backend = b /\ req[g].pc = "proxy"
        /\ connections[b] = 1

\* --------------------------------------------------------------- claim C10
\* The registry the router selects from has no alive backend.
AllNotAlive == AliveBackends(LbBackends, alive) = <<>>

\* C10: a request counts once in TotalRequests; when its selection is made on
\* a registry with no alive backend the router does not forward (the request
\* goes to the no-backend answer and no backend field changes), and the
\* no-backend answer adds one to FailedRequests, is a 503, and changes no
\* backend's connection count, alive flag, fail count or response time.
C10_NoBackendAnswer ==
    [][\A h \in Handlers :
          /\ (req[h].pc \in {"idle", "done", "panicked"} /\ req'[h].pc = "select")
                 => TotalRequests' = TotalRequests + 1
          /\ (req[h].pc = "select" /\ req'[h].pc # "select" /\ AllNotAlive)
                 => /\ req'[h].pc = "unavailable"
                    /\ UNCHANGED <<backendVars, TotalRequests>>
          /\ (req[h].pc = "unavailable" /\ req'[h].pc # "unavailable")
                 => /\ FailedRequests' = FailedRequests + 1
                    /\ TotalRequests' = TotalRequests
                    /\ req'[h].pc = "done"
                    /\ req'[h].code = StatusServiceUnavailable
                    /\ UNCHANGED backendVars]_vars

Answers == BackendStatuses \cup {StatusBadGateway, StatusServiceUnavailable}

\* C12: every ServeHTTP call that has ended, under every strategy and every
\* liveness combination, has sent the caller one HTTP response: the backend's
\* status, 502 or 503.
C12_AlwaysAnswered ==
    \A h \in Handlers :
        req[h].pc \in {"done", "panicked"} => req[h].code \in Answers

\* --------------------------------------------------------------- claim C13
\* C13: a snapshot taken after exactly 12 ServeHTTP calls, 10 of them
\* forwarded successfully and 2 failed (no backend available, or a transport
\* failure of the forward), reports totalRequests = 12, failedRequests = 2
\* and successRate = "83.33%"; a snapshot taken when no request has been made
\* reports the success rate "N/A".
C13_MetricsScenario ==
    stats # NoStats =>
        /\ (tally.forwarded = 10 /\ tally.unavailable + tally.badGateway = 2
                /\ tally.panicked = 0)
              => /\ stats.totalRequests = 12
                 /\ stats.failedRequests = 2
                 /\ stats.successRate = "83.33%"
        /\ TotalRequests = 0 => stats.successRate = "N/A"

\* --------------------------------------------------------------- claim C14
\* C14: a probe of b that completes with a response status in [200,400)
\* sets alive = true and overwrites the response time with its duration; one
\* that completes with a status >= 400, or with a transport error or timeout,
\* sets alive = false and leaves the response time as it was.
C14_ProbeClassification ==
    [][\A b \in HcBackends :
          probes'[b] < probes[b] =>
             IF env[b] \in 200..399
             THEN alive'[b] /\ responseTime'[b] \in Durations
             ELSE /\ (env[b] >= 400 \/ env[b] = ProbeError)
                  /\ ~alive'[b]
                  /\ responseTime'[b] = responseTime[b]]_vars

\* Probes have classified two backends: one answering 400 or more is
\* not-alive with no forward having failed on it and keeps the response time
\* of an earlier healthy probe; one answering below 400 is alive.
C14_Witness ==
    \E b, c \in HcBackends :
        /\ env[b] >= 400 /\ ~alive[b] /\ failCount[b] = 0 /\ responseTime[b] \in Durations
        /\ env[c] = 399 /\ alive[c] /\ failCount[c] = 1 /\ responseTime[c] \in Durations
        /\ probes[b] = 0 /\ probes[c] = 0

\* --------------------------------------------------------------- claim C15
\* C15: a probe of b that gets a status in [200,400) marks b alive, whatever
\* made it not-alive; and with the monitor running under fair scheduling, if
\* from some point on the context is never cancelled and b answers every
\* probe with such a status, a not-alive b eventually is alive again.
C15_Recovery ==
    /\ [][\A b \in HcBackends :
             (probes'[b] < probes[b] /\ env[b] \in 200..399) => alive'[b]]_vars
    /\ \A b \in HcBackends :
          (/\ ~alive[b]
           /\ hcPc \in {"initial", "loop"}
           /\ [](~ctxDone /\ env[b] \in 200..399)) ~> alive[b]

\* b was marked not-alive by a failed forward and is alive again while the
\* monitor runs: only a probe can have done that.
C15_Witness ==
    \E b \in HcBackends :
        failCount[b] = 1 /\ alive[b] /\ hcPc = "loop" /\ ~ctxDone

\* --------------------------------------------------------------- claim C20
\* A round of probes starts: one more hc.check goroutine for every backend.
RoundStarts == \A b \in HcBackends : probes'[b] = probes[b] + 1

\* C20: the started monitor begins one round of probes over all backends
\* before it waits for a tick (the step that takes it into its loop starts a
\* round and consumes no tick), and every other start of a probe is a round
\* begun by the loop taking a tick.
C20_ImmediateFirstRound ==
    [][/\ (hcPc = "initial" /\ hcPc' # "initial")
            => RoundStarts /\ hcPc' = "loop" /\ tickPending' = tickPending
       /\ ((\E b \in Backends : probes'[b] > probes[b]) /\ hcPc # "initial")
            => RoundStarts /\ hcPc = "loop" /\ tickPending /\ ~tickPending']_vars

\* The monitor is in its loop with the probes of the first round in flight,
\* and no tick has been taken: the first tick is still waiting.
C20_Witness ==
    /\ hcPc = "loop"
    /\ tickPending
    /\ \A b \in HcBackends : probes[b] = 1 /\ responseTime[b] = 0 /\ alive[b]

\* --------------------------------------------------------------- claim C16
\* A SetStrategy call has returned and none is in progress.
SetStrategyReturned == setPc = "idle" /\ setArg # ""

InRandom == {h \in Handlers : req[h].pc = "selecting" /\ using[h] = RandomStrategy}

\* C17: no two accesses to a shared variable, one of them a write, happen
\* without a common lock or atomic operation: no two handlers are inside
\* Random.SelectBackend together, and no GetStrategy reads the active-strategy
\* field while SetStrategy holds the lock to write it.
C17_NoUnsynchronizedAccess ==
    /\ [](Cardinality(InRandom) <= 1)
    /\ [][GetStrategy => ~mu.writer]_vars

\* --------------------------------------------------------------- claim C18
BadConfig ==
    \/ Len(config.BackendURLs) = 0
    \/ config.Strategy = NilStrategy
    \/ \E i \in 1..Len(config.BackendURLs) : Parse(config.BackendURLs[i]).err # ""

\* C18: NewLoadBalancer returns an error and no load balancer when the
\* configuration has no backend URLs, when the strategy is nil, or when some
\* backend URL cannot be parsed; otherwise it returns no error and a load
\* balancer with exactly one backend per configured URL, in configuration
\* order.
C18_Construction ==
    built # <<>> =>
        LET r == built[1]
            urls == config.BackendURLs
        IN  IF BadConfig
            THEN r.err # "" /\ r.lb = {}
            ELSE /\ r.err = ""
                 /\ Cardinality(r.lb) = 1
                 /\ \A lb \in r.lb :
                        /\ Len(lb.backends) = Len(urls)
                        /\ \A i \in 1..Len(urls) :
                               URLString(lb.backends[i].URL) = urls[i]

\* A load balancer was built from two different URLs.
C18_Witness ==
    /\ built # <<>>
    /\ built[1].err = ""
    /\ Len(config.BackendURLs) = 2
    /\ config.BackendURLs[1] # config.BackendURLs[2]

\* Construction failed on the second URL, after a backend was made for the
\* first.
C18_FailsOnSecondURL ==
    /\ built # <<>>
    /\ built[1].err # ""
    /\ config.Strategy # NilStrategy
    /\ Len(config.BackendURLs) = 2
    /\ Parse(config.BackendURLs[1]).err = ""

\* --------------------------------------------------------------- claim C19
\* C19: GetStats is read-only: a call, in any state of the router, with
\* requests in flight and between probes, changes neither TotalRequests nor
\* FailedRequests, nor any backend's alive flag, connection count, response
\* time or fail count, nor the active strategy or its cursor.
C19_GetStatsReadOnly ==
    [][stats' # stats =>
          UNCHANGED <<TotalRequests, FailedRequests, alive, connections,
                      responseTime, failCount, strategy, rrCurrent, wrrCurrent>>]_vars

\* A snapshot was taken while a request was in flight, after requests were
\* counted, with a backend not alive and a cursor advanced.
C19_Witness ==
    /\ stats # NoStats
    /\ stats.totalRequests > 0
    /\ stats.totalConnections > 0
    /\ stats.aliveBackends < stats.totalBackends
    /\ rrCurrent > 0

\* --------------------------------------------------------------- claim C21
\* C21: once the context of a started monitor is cancelled, the monitor loop
\* eventually terminates; a terminated loop stays terminated and starts no
\* further probe round (no backend gets a new probe in flight).  Probes in
\* flight at that moment may still complete.
C21_Shutdown ==
    /\ (ctxDone /\ hcPc # "notstarted") ~> (hcPc = "stopped")
    /\ [][hcPc = "stopped" =>
             /\ hcPc' = "stopped"
             /\ \A b \in Backends : probes'[b] <= probes[b]]_vars

\* The loop has terminated with a probe still in flight and a tick waiting
\* in the ticker's channel.
C21_Witness ==
    /\ hcPc = "stopped"
    /\ ctxDone
    /\ tickPending
    /\ \E b \in HcBackends : probes[b] > 0

\* --------------------------------------------------------------- claim C22
\* The monitor of the fresh-backend scenario runs one round: no probe of b has
\* completed while the round has not started or b's probe is in flight.
NoProbeCompleted(b) == hcPc \in {"notstarted", "initial"} \/ probes[b] > 0

FreshState(b) == alive[b] /\ connections[b] = 0 /\ failCount[b] = 0

\* C22 as stated: a backend made by NewBackend from a parseable URL is alive
\* with no connection and no failure, and, as long as no probe of it has
\* completed, every strategy asked to select from a list holding it returns
\* it.
C22_FreshSelectableByAll ==
    /\ \A b \in 1..Len(built) :
           /\ (built[b].err = "") = (Parse(config.BackendURLs[b]).err = "")
           /\ b \in Created /\ NoProbeCompleted(b) => FreshState(b)
    /\ last.op = "select" /\ NoProbeCompleted(last.backend)
           => last.result = last.backend

\* C22, amended: the same, except that WeightedRoundRobin does not return a
\* backend whose configured weight is 0 (or less).
C22_FreshSelectable ==
    /\ \A b \in 1..Len(built) :
           /\ (built[b].err = "") = (Parse(config.BackendURLs[b]).err = "")
           /\ b \in Created /\ NoProbeCompleted(b) => FreshState(b)
    /\ last.op = "select" /\ NoProbeCompleted(last.backend)
           => IF strategy = WeightedRoundRobinStrategy
                 /\ WeightOf(weights, last.backend) <= 0
              THEN last.result = Nil
              ELSE last.result = last.backend

\* A fresh backend was selected while its first probe was in flight.
C22_Witness ==
    /\ last.op = "select"
    /\ last.result = last.backend
    /\ hcPc = "loop"
    /\ probes[last.backend] > 0

\* --------------------------------------------------------------- claim C23
\* Handler h's forward to a backend of the list gets a response in this step.
GotResponse(h) ==
    /\ req[h].pc = "proxy"
    /\ req'[h].pc = "release"
    /\ req[h].backend \in Backends

\* Handler h's forward fails at transport level in this step.
GotTransportError(h) == req[h].pc = "proxy" /\ req'[h].pc = "errorhandler"

\* C23 as stated: a forwarded response with a server-error-class status
\* (500 and above) resets the backend's failCount to 0, and a transport-level
\* failure increments it by 1.
C23_ServerErrorResets ==
    [][\A h \in Handlers :
          /\ GotResponse(h) /\ req'[h].code >= 500
                 => failCount'[req[h].backend] = 0
          /\ GotTransportError(h)
                 => failCount'[req[h].backend] = failCount[req[h].backend] + 1]_vars

\* C23, amended: a forwarded response with a status below 500 resets the
\* backend's failCount to 0, a response with a server-error-class status
\* leaves it as it is, and a transport-level failure increments it by 1; no
\* other backend's failCount changes.
C23_FailCountBookkeeping ==
    [][\A h \in Handlers :
          /\ GotResponse(h) /\ req'[h].code < 500
                 => failCount' = [failCount EXCEPT ![req[h].backend] = 0]
          /\ GotResponse(h) /\ req'[h].code >= 500
                 => failCount' = failCount
          /\ GotTransportError(h)
                 => failCount' = [failCount EXCEPT ![req[h].backend] = @ + 1]]_vars

\* A backend with one failure on record, alive again, has answered 500 and
\* still has the failure on record.
C23_Witness ==
    \E h \in Handlers :
        /\ req[h].pc = "release" /\ req[h].code = 500 /\ ~req[h].panic
        /\ req[h].backend \in Backends
        /\ alive[req[h].backend]
        /\ failCount[req[h].backend] = 1
        /\ \A g \in Handlers \ {h} : req[g].pc = "idle"

\* --------------------------------------------------------------- claim C24
\* The ServeHTTP calls in progress that have not counted a failure.
Undecided == {h \in Handlers : req[h].pc \notin {"idle", "done", "panicked"}}

\* C24: TotalRequests and FailedRequests never decrease; TotalRequests grows
\* by exactly 1 at the start of every ServeHTTP call and at no other step;
\* FailedRequests grows only by 1, in the no-backend step that ends a call, so
\* at most once per call; and FailedRequests <= TotalRequests in every
\* reachable state (with room for every call still in progress).
C24_Counters ==
    /\ [](FailedRequests + Cardinality(Undecided) <= TotalRequests)
    /\ [][/\ TotalRequests' >= TotalRequests
          /\ FailedRequests' >= FailedRequests
          /\ \A h \in Handlers :
                 h \notin Undecided /\ req'[h].pc = "select"
                     => TotalRequests' = TotalRequests + 1
          /\ TotalRequests' # TotalRequests
                 => /\ TotalRequests' = TotalRequests + 1
                    /\ \E h \in Handlers : h \notin Undecided /\ req'[h].pc = "select"
          /\ FailedRequests' # FailedRequests
                 => /\ FailedRequests' = FailedRequests + 1
                    /\ \E h \in Handlers :
                           req[h].pc = "unavailable" /\ req'[h].pc = "done"]_vars

\* Every request so far has failed, and two handlers made them.
C24_Witness ==
    /\ FailedRequests = TotalRequests
    /\ TotalRequests >= 2
    /\ \A h \in Handlers : req[h].pc = "done" /\ req[h].code = StatusServiceUnavailable

\* --------------------------------------------------------------- claim C25
\* C25: after NewLoadBalancer no two backends of the load balancer have the
\* same URL.
C25_OneBackendPerAddress ==
    \A r \in {built[i] : i \in 1..Len(built)} :
        \A lb \in r.lb :
            \A i, j \in 1..Len(lb.backends) :
                i # j => URLString(lb.backends[i].URL) # URLString(lb.backends[j].URL)

\* The same for a pool filled by AddBackend: no two backends have the same
\* URL, so marking an address not-alive leaves no alive backend at it.
C25_PoolOneBackendPerAddress ==
    \A i, j \in 1..Len(pool) : i # j => pool[i] # pool[j]

\* --------------------------------------------------------------- claim C26
NoDuplicates(q) == \A i, j \in 1..Len(q) : i # j => q[i] # q[j]

\* C26: NextIndex advances the shared cursor by exactly 1 in one atomic step
\* and returns the new value modulo the total number of backends, a number in
\* [0, total); nothing else changes the cursor, which never decreases; the
\* cursor values that calls get are pairwise distinct; on an empty pool the
\* call returns 0 and leaves the cursor alone.
C26_NextIndex ==
    /\ [](NoDuplicates(observed))
    /\ [][/\ spCurrent' >= spCurrent
          /\ spCurrent' # spCurrent
                 => /\ spCurrent' = spCurrent + 1
                    /\ \E c \in Handlers :
                           /\ nextIdx[c].pc = "add"
                           /\ nextIdx'[c].cur = spCurrent'
          /\ \A c \in Handlers :
                 /\ nextIdx[c].pc = "add" /\ nextIdx'[c].pc # "add"
                        => spCurrent' = spCurrent + 1 /\ nextIdx'[c].cur = spCurrent'
                 /\ nextIdx[c].pc = "mod" /\ nextIdx'[c].pc = "returned"
                        => /\ nextIdx'[c].result = nextIdx[c].cur % Len(pool)
                           /\ nextIdx'[c].result \in 0..(Len(pool) - 1)
                 /\ ~InCall(c) /\ nextIdx'[c] # nextIdx[c] /\ Len(pool) = 0
                        => /\ nextIdx'[c].pc = "returned"
                           /\ nextIdx'[c].result = 0
                           /\ spCurrent' = spCurrent]_vars

\* Two concurrent calls on a pool of three backends, one of them not alive,
\* have returned: they got different cursor values, and one result differs
\* from what the alive count would give.
C26_Witness ==
    /\ Len(pool) = 3
    /\ Cardinality({i \in 1..Len(pool) : alive[i]}) = 2
    /\ \A c \in Handlers : nextIdx[c].pc = "returned" /\ nextIdx[c].cur > 0
    /\ \A c, d \in Handlers : c # d => nextIdx[c].cur # nextIdx[d].cur
    /\ \E c \in Handlers : nextIdx[c].result # nextIdx[c].cur % 2

\* --------------------------------------------------------------- claim C27
\* The number of entries an alive backend gets when a missing weight counts
\* as 1.
Entries(b) ==
    IF ~alive[b] THEN 0
    ELSE IF b \in DOMAIN weights THEN weights[b] ELSE 1

RECURSIVE EntriesUpTo(_)
EntriesUpTo(b) == IF b = 0 THEN 0 ELSE EntriesUpTo(b - 1) + Entries(b)

\* C27: WeightedRoundRobin never returns a backend whose configured weight
\* is 0, and a backend without an entry in the weight map is returned like a
\* backend of weight 1: once in every full cycle of calls.
C27_WeightZeroAndDefault ==
    strategy = WeightedRoundRobinStrategy =>
        /\ last.op = "select" /\ last.result \in DOMAIN weights
               => weights[last.result] # 0
        /\ \A i \in 1..Len(selLog) :
               selLog[i] \in DOMAIN weights => weights[selLog[i]] # 0
        /\ LET W == EntriesUpTo(NumBackends)
           IN  \A b \in Backends \ DOMAIN weights :
                   alive[b] =>
                       \A i \in 1..Len(selLog) :
                           i + W - 1 <= Len(selLog)
                               => Count(selLog, b, i, i + W - 1) = 1

\* A full cycle of calls was made with an alive backend of weight 0, a backend
\* without an entry and a backend of weight MaxWeight.
C27_Witness ==
    /\ strategy = WeightedRoundRobinStrategy
    /\ AliveSet = Backends
    /\ \E b \in DOMAIN weights : weights[b] = 0
    /\ \E b \in DOMAIN weights : weights[b] = MaxWeight
    /\ \E b \in Backends \ DOMAIN weights :
           Count(selLog, b, 1, Len(selLog)) = 1
    /\ Len(selLog) = EntriesUpTo(NumBackends)

\* --------------------------------------------------------------- claim C28
\* C28: IPHash.SelectBackend is a function of the liveness flags alone: on
\* the registered list it returns the first alive backend in list order (none
\* if there is none), whatever the connection counts and whatever calls were
\* made before, and a call changes no state of the strategy or the backends.
C28_IPHashFirstAlive ==
    /\ [](strategy = IPHashStrategy /\ last.op = "select" /\ ~last.empty
              => /\ AliveSet = {} => last.result = Nil
                 /\ AliveSet # {}
                        => /\ last.result \in AliveSet
                           /\ \A b \in AliveSet : last.result <= b)
    /\ [][strategy = IPHashStrategy /\ last'.op = "select"
              => UNCHANGED <<backendVars, strategyVars>>]_vars

\* IPHash returned the second backend, the first being not-alive, although
\* the third has fewer connections.
C28_Witness ==
    /\ strategy = IPHashStrategy
    /\ last.op = "select"
    /\ last.result = 2
    /\ ~alive[1] /\ alive[3]
    /\ connections[3] < connections[2]

\* --------------------------------------------------------------- claim C29
\* C29: a backend returned by Random.SelectBackend is one of the backends
\* alive at the call, and in every reachable state, whatever calls were made
\* before, the possible results of a call on the registered list are exactly
\* the alive backends (none only if no backend is alive).
C29_RandomOverAlive ==
    strategy = RandomStrategy =>
        /\ last.op = "select" /\ ~last.empty /\ AliveSet # {}
               => last.result \in AliveSet
        /\ AliveSet # {} => RandomSelectBackend(AllBackends, alive) = AliveSet
        /\ AliveSet = {} => RandomSelectBackend(AllBackends, alive) = {Nil}

\* Random returned the last backend of the list while the first was alive too
\* and the second was not.
C29_Witness ==
    /\ strategy = RandomStrategy
    /\ last.op = "select"
    /\ last.result = NumBackends
    /\ alive[1] /\ ~alive[2]

\* --------------------------------------------------------------- claim C30
\* A probe of b completes in this step.
ProbeCompletes(b) == probes'[b] = probes[b] - 1

\* C30: a completing probe of b, whatever its outcome, changes at most b's
\* alive flag and, if healthy, b's response time; it changes no other
\* backend's alive flag or response time, no connection count, no fail
\* count, neither request counter; it does not move the monitor loop, and it
\* leaves the probes of the other backends in flight, free to complete.
C30_ProbeIsolation ==
    [][\A b \in HcBackends :
          ProbeCompletes(b) =>
              /\ \A c \in Backends \ {b} :
                     /\ alive'[c] = alive[c]
                     /\ responseTime'[c] = responseTime[c]
                     /\ probes'[c] = probes[c]
              /\ ~ProbeHealthy(env[b]) => responseTime' = responseTime
              /\ UNCHANGED <<connections, failCount, TotalRequests, FailedRequests,
                             hcPc, ctxDone, tickPending, strategyVars>>]_vars

\* A probe of one backend has failed while the loop runs on and the probe of
\* another backend, which has a failure on record, is still in flight.
C30_Witness ==
    \E b, c \in HcBackends :
        /\ b # c
        /\ hcPc = "loop"
        /\ env[b] = ProbeError /\ ~alive[b] /\ failCount[b] = 0 /\ probes[b] = 0
        /\ probes[c] > 0 /\ failCount[c] = 1

\* --------------------------------------------------------------- claim C31
\* A probe round starts in this step: the initial one or a tick's.
RoundStartsNow ==
    \/ hcPc = "initial" /\ hcPc' = "loop"
    \/ tickPending /\ ~tickPending'

\* C31: every round starts exactly one probe per registered backend; a probe
\* in flight, however long, delays neither the completion of another
\* backend's probe nor the start of the next tick's round (rounds are kept
\* from starting only by the model's cap of MaxProbes probes per backend).
C31_ConcurrentProbes ==
    /\ [][RoundStartsNow =>
             \A b \in Backends :
                 probes'[b] = IF b \in HcBackends THEN probes[b] + 1 ELSE probes[b]]_vars
    /\ [](\A b \in HcBackends : probes[b] > 0 => ENABLED CheckDone(b))
    /\ [](hcPc = "loop" /\ tickPending /\ (\A b \in HcBackends : probes[b] < MaxProbes)
              => ENABLED StartLoopTick)

\* The first probe of one backend is still in flight while the other
\* backend's first probe has completed and a second round has started.
C31_Witness ==
    \E b, c \in HcBackends :
        /\ hcPc = "loop"
        /\ probes[b] = 2
        /\ probes[c] = 1

\* --------------------------------------------------------------- claim C32
\* The positions of the pool whose backend has the address u.
AtAddress(u) == {i \in 1..Len(pool) : pool[i] = u}

\* C32: MarkBackendStatus(url, v) sets the alive flag of the backend at that
\* address (the first one in pool order, should several have it) to v and
\* changes no other alive flag, no connection count, no fail count and no
\* response time; with no backend at that address it changes nothing.
C32_MarkByAddress ==
    [][last' # last /\ last'.op = "mark" =>
          LET at == AtAddress(last'.url)
          IN  /\ at = {} => alive' = alive
              /\ at # {} =>
                     \E i \in at :
                         /\ \A j \in at : i <= j
                         /\ alive' = [alive EXCEPT ![i] = (last'.result = 1)]
              /\ UNCHANGED <<connections, failCount, responseTime, pool, spCurrent>>]_vars

\* The second backend of a pool of two addresses was marked not-alive by its
\* address; the first stayed alive.
C32_Witness ==
    /\ Len(pool) >= 2
    /\ pool[1] # pool[2]
    /\ last.op = "mark" /\ last.url = pool[2] /\ last.result = 0
    /\ alive[1] /\ ~alive[2]

\* A marking of an address that no backend of the pool has.
C32_NoSuchAddress ==
    /\ last.op = "mark"
    /\ Len(pool) > 0
    /\ AtAddress(last.url) = {}

\* --------------------------------------------------------------- claim C33
\* C33: every snapshot GetStats returns, also one taken while ServeHTTP calls
\* run, reports failedRequests <= totalRequests, a success rate that is not
\* negative, and "N/A" only if it reports no failed request.
C33_SnapshotConsistent ==
    SnapshotDone =>
        /\ stats.failedRequests <= stats.totalRequests
        /\ SubSeq(stats.successRate, 1, 1) # "-"
        /\ stats.successRate = "N/A" => stats.failedRequests = 0

\* The same for snapshots during which no request was counted.
C33_QuietSnapshot ==
    SnapshotDone /\ stats.totalRequests = TotalRequests =>
        /\ stats.failedRequests <= stats.totalRequests
        /\ SubSeq(stats.successRate, 1, 1) # "-"
        /\ stats.successRate = "N/A" => stats.failedRequests = 0

\* --------------------------------------------------------------- claim C34
\* C34: for every backend, once no probe of it is in flight and no forward to
\* it has failed, its alive flag is the outcome of the probe started last.
C34_NewestProbeWins ==
    \A b \in HcBackends :
        probes[b] = 0 /\ newest[b] # "none" /\ failCount[b] = 0
            => alive[b] = (newest[b] = "healthy")

\* No probe of a backend completes after the probe started last for that
\* backend has completed.
C34_AppliedInStartOrder ==
    [][\A b \in HcBackends : probes'[b] < probes[b] => newest[b] = "pending"]_vars

\* The same end state when at most one probe of a backend is in flight at a
\* time.
C34_NewestProbeWinsAlone ==
    [](\A b \in HcBackends : probes[b] <= 1)
        => [](\A b \in HcBackends :
                 probes[b] = 0 /\ newest[b] # "none" /\ failCount[b] = 0
                     => alive[b] = (newest[b] = "healthy"))

\* --------------------------------------------------------------- claim C35
\* C35: with the alive backends fixed and any interleaving of the callers of
\* one fresh RoundRobin, the calls get pairwise distinct cursor values, and
\* whenever k*N calls have been issued and have all returned, N being the
\* number of alive backends, each alive backend was returned exactly k times.
C35_ConcurrentRoundRobin ==
    LET N == Cardinality(AliveSet)
        returned == Len(selLog)
    IN  /\ \A i, j \in 1..Len(cursorLog) : i # j => cursorLog[i] # cursorLog[j]
        /\ (/\ N > 0
            /\ \A c \in Handlers : rrCall[c].pc = "idle"
            /\ returned = Len(cursorLog)
            /\ returned % N = 0)
               => \A b \in Backends :
                     Count(selLog, b, 1, returned) = (IF alive[b] THEN returned \div N ELSE 0)

\* Two rounds over three alive backends have returned, and not in the order
\* of the cursor values: a caller that added first returned second.
C35_Witness ==
    /\ Cardinality(AliveSet) = NumBackends
    /\ \A c \in Handlers : rrCall[c].pc = "idle"
    /\ Len(selLog) = 2 * NumBackends
    /\ \E i \in 1..Len(selLog) : selLog[i] # AllBackends[((i - 1) % NumBackends) + 1]

\* --------------------------------------------------------------- claim C36
\* C36: a step of the router that turns a backend from not-alive to alive is a
\* health probe of that backend with a status in [200,400) and no step of a
\* request; a step in which a forward gets its response, whatever the status,
\* leaves every alive flag as it was.
C36_ForwardingNeverRevives ==
    [][/\ \A b \in Backends :
             ~alive[b] /\ alive'[b]
                 => /\ req' = req
                    /\ \E outcome \in ProbeOutcomes :
                          ProbeHealthy(outcome) /\ Check(b, outcome)
       /\ \A h \in Handlers : GotResponse(h) => alive' = alive]_vars

\* A forward to a backend that went not-alive meanwhile has just got a
\* response below 500: the failCount is reset and the backend is still
\* not-alive.
C36_Witness ==
    \E h \in Handlers :
        /\ req[h].pc = "release"
        /\ ~req[h].panic
        /\ req[h].backend \in Backends
        /\ req[h].code = 200
        /\ ~alive[req[h].backend]

\* --------------------------------------------------------------- claim C37
\* C37: whatever value the cursor has reached, a RoundRobin or
\* WeightedRoundRobin selection that indexes its list does so inside the list.
C37_IndexInRange ==
    last.op = "select" => last.result # Panic

\* The same for the cursor values 1 .. 2^(w-1), w the width of int.
C37_IndexInRangeBelowBoundary ==
    last.op = "select" /\ last.before \in 1..(CursorMod \div 2) => last.result # Panic

\* Beyond the boundary the index is inside the list only where len divides
\* int(cursor) - 1; at the wrap to 0 only for a list of one.
C37_BeyondBoundary ==
    last.op = "select" /\ last.before \notin 1..(CursorMod \div 2) /\ last.result \in Backends
        => LET list == IF strategy = RoundRobinStrategy THEN AliveBackends(AllBackends, alive)
                       ELSE WeightedBackends(AllBackends, alive, weights)
           IN  WrapInt(IntOf(last.before) - 1) % Len(list) = 0

\* --------------------------------------------------------------- claim C38
\* The backends a GetNextPeer call that started at position next of a pool of
\* l backends passes before it reaches position idx, cyclically.
Passed(next, idx, l) == {((next + j) % l) + 1 : j \in 0..(((idx - next) + l) % l) - 1}

\* C38: a GetNextPeer call that has returned made one atomic add on a pool
\* with backends and none on an empty pool; the backend it returned was alive
\* when the call tested it; and if the call saw liveness unchanged, the result
\* is the first alive backend in cyclic order from the index NextIndex gave,
\* and is nil exactly when the pool is empty or no backend of it is alive.
C38_GetNextPeer ==
    /\ [](\A c \in Handlers :
            peer[c].pc = "returned" =>
                LET r == peer[c]
                    aliveInPool == {b \in 1..r.l : r.from[b]}
                IN  /\ r.adds = (IF r.l = 0 THEN 0 ELSE 1)
                    /\ r.l = 0 => r.result = Nil
                    /\ r.result # Nil => r.result \in 1..r.l /\ r.next \in 0..(r.l - 1)
                    /\ r.stable =>
                          /\ r.result = Nil <=> aliveInPool = {}
                          /\ r.result # Nil =>
                                /\ r.result \in aliveInPool
                                /\ Passed(r.next, r.result - 1, r.l) \cap aliveInPool = {})
    /\ [][\A c \in Handlers :
             peer[c].pc = "scan" /\ peer'[c].pc = "returned" /\ peer'[c].result # Nil
                 => alive[peer'[c].result]]_vars
    /\ [][\A c \in Handlers :
             peer[c].pc = "index" /\ peer'[c].pc # "index"
                 => /\ spCurrent' = AddUint64(spCurrent)
                    /\ peer'[c].next = spCurrent' % Len(pool)]_vars

\* A call on a pool of three with liveness unchanged has started at the last
\* position, found it not alive, wrapped round and returned the backend it
\* reached after passing another not-alive one.
C38_Witness ==
    \E c \in Handlers :
        /\ peer[c].pc = "returned"
        /\ peer[c].stable
        /\ peer[c].l = NumBackends
        /\ peer[c].next = NumBackends - 1
        /\ peer[c].result = 2

\* A call on a pool with backends has returned nil with liveness unchanged.
C38_NilOnAllNotAlive ==
    \E c \in Handlers :
        /\ peer[c].pc = "returned"
        /\ peer[c].stable
        /\ peer[c].l > 0
        /\ peer[c].result = Nil

====
